---- MODULE Spec2Model ----
(***************************************************************************)
(* Model of the YmusicPlayer renderer session (src/src/App.jsx): the       *)
(* current track, the asynchronous audio load (loadSource) and lyric load  *)
(* (loadLyrics) started by a track change, the playback clock, the lyric   *)
(* offset, the two-click manual realignment and the save of the offset to  *)
(* the lyric file.                                                         *)
(*                                                                         *)
(* All times are integers in milliseconds.  Sequences are 1-based, so the  *)
(* source's line index i is i + 1 here and the source's `null` held index  *)
(* is NoHold.  An event handler, or the continuation of an async function  *)
(* up to its next await, is one action; the effects React runs after the   *)
(* handler's state change are part of the same action.                     *)
(***************************************************************************)
EXTENDS Integers, Sequences, FiniteSets, Bags, TLC

VARIABLES
    currentTrackId,   \* useState(null), App.jsx:145
    isPlaying,        \* App.jsx:146
    time,             \* App.jsx:147, last clock sample pushed by onTimeUpdate
    trackDuration,    \* App.jsx:152
    playError,        \* App.jsx:153, the status message
    lyricDebugPath,   \* App.jsx:162
    lyricOffsetSec,   \* App.jsx:165
    lyricAdjustMode,  \* App.jsx:166
    holdLyricIdx,     \* App.jsx:167
    lyricLines,       \* App.jsx:168
    sourceSwitching,  \* sourceSwitchingRef.current, App.jsx:173
    audioTime,        \* audioRef.current.currentTime
    audioSrc,         \* audioRef.current.src
    datasetBlobUrl,   \* audioRef.current.dataset.blobUrl
    blobUrls,         \* the object URLs created and not yet revoked, a bag of
                      \* the tracks they stream
    audioLoads,       \* the loadSource calls in flight, oldest first
    lyricLoads,       \* the loadLyrics calls in flight, oldest first
    saves,            \* the saveLyricOffsetToFile calls awaiting writeTextFile
    files,            \* the lyric files on disk: path -> File(text) or Missing
    data,             \* useState(DEFAULT_DATA), App.jsx:138: tracks, scanFolders, playMode
    pendingQueue,     \* App.jsx:151
    scans,            \* the removeManagedFolder calls awaiting scanFolders
    call,             \* the function of main.cjs being applied, with its arguments
    ret,              \* what that function returned
    downloads,        \* the onLyricDownloaded handlers between their awaits
    query,            \* the text of the search box
    isQuitting,       \* main.cjs:15
    isHandlingClose,  \* main.cjs:16
    closeHandlers,    \* the handleMainCloseRequest calls between their awaits
    mainWindow,       \* the main window: shown, hidden or destroyed
    appTray,          \* whether the tray icon exists
    appQuit,          \* whether app.quit() was called
    closeBehavior,    \* settings.closeBehavior of the data file
    last,             \* history: the step taken last and what it did
    edits             \* history: realignments applied and saves started so far

sessionVars == <<currentTrackId, isPlaying, time, trackDuration, playError>>
lyricVars == <<lyricDebugPath, lyricOffsetSec, lyricAdjustMode, holdLyricIdx, lyricLines>>
audioVars == <<sourceSwitching, audioTime, audioSrc, datasetBlobUrl, blobUrls>>
asyncVars == <<audioLoads, lyricLoads, saves>>
libraryVars == <<data, pendingQueue, scans>>
callVars == <<call, ret>>
windowVars == <<isQuitting, isHandlingClose, closeHandlers, mainWindow, appTray, appQuit,
               closeBehavior>>
handlerVars == <<downloads, query, windowVars>>
vars == <<sessionVars, lyricVars, audioVars, asyncVars, files, libraryVars, callVars, handlerVars,
          last, edits>>

----------------------------------------------------------------------------
(* Bounds of the model *)

\* loadSource calls in flight at once (one current, the others superseded)
MaxAudioLoads == 2
\* loadLyrics calls in flight at once
MaxLyricLoads == 2
\* saveLyricOffsetToFile calls in flight at once
MaxSaves == 1
\* realignments that move a line, and saves, explored in one session
MaxEdits == 2
\* saves that move the lines later are explored while the times stay below this
MaxLineTime == 3000
\* tracks waiting in the "play next" queue
MaxQueue == 1
\* removeManagedFolder calls in flight at once
MaxScans == 1
\* onLyricDownloaded handlers in flight at once
MaxDownloads == 1
\* lines of the sequences the display specification draws
MaxViewLines == 3
\* lines of the sequences the save-and-reload specification draws
MaxRoundTripLines == 2
\* lines of the texts given to parseLyrics
MaxRawLines == 2
\* lyric files in the list given to findLyricsForAudio
MaxLyricFiles == 2
\* bytes of the buffers given to the decoder
MaxBufLen == 4
\* positions the playback clock takes (play, seek)
ClockVals == {0, 1040, 1950}
\* offsets the lyric-timing specification explores
OffsetVals == {-500, 0, 500}

----------------------------------------------------------------------------
(* Program constants *)

OffsetLimit == 30000
OffsetStep == 500
MinGap == 100
AlignEpsilon == 1
NoHold == 0

Tracks == {"t1", "t2"}
NoTrack == "null"
NoPath == <<>>
NoBlob == "none"
\* a file that cannot be read: readTextFile answers null
Missing == [exists |-> FALSE, text |-> <<>>]
File(text) == [exists |-> TRUE, text |-> text]

Abs(x) == IF x < 0 THEN -x ELSE x
Max(a, b) == IF a >= b THEN a ELSE b
Min(a, b) == IF a <= b THEN a ELSE b

----------------------------------------------------------------------------
(* The library: data.tracks as a folder scan left it *)

Exts == {".lrc", ".LRC", ".txt", ".TXT"}
Paths == Tracks \X Exts

\* track.ext
TrackExt(t) == IF t = "t1" THEN ".wma" ELSE ".mp3"

\* track.lyricPath: the lyric file the scan resolved, NoPath when it found none
TrackLyricPath(t) == data.lyricPaths[t]

\* track.duration
TrackDurationOf(t) == IF t = "t1" THEN 3000 ELSE 4000

\* track.folder
TrackFolder(t) == IF t = "t1" THEN "f1" ELSE "f2"

\* the playlists: the fixed one and one the user made
PlaylistIds == {"favorites", "playlist-1"}

\* data as the last scan left it: the tracks in list order, the managed
\* folders and settings.playMode
InitData ==
    [tracks |-> <<"t1", "t2">>,
     lyricPaths |-> [t \in Tracks |-> IF t = "t2" THEN <<t, ".lrc">> ELSE NoPath],
     lyricEncodingMap |-> [t \in Tracks |-> "auto"],
     liked |-> [t \in Tracks |-> FALSE],
     playlists |-> [p \in PlaylistIds |-> {}],
     scanFolders |-> {"f1", "f2"}, playMode |-> "sequence"]

\* no function of main.cjs is being applied
NoCall == [fn |-> "none"]

\* A lyric text is a sequence of physical lines; a physical line carries its
\* timestamp tags [mm:ss.fff] (min: the minutes field, sec: the seconds field
\* in milliseconds) and the text left when the tags are removed.
Tag(m, s) == [min |-> m, sec |-> s]
TextHello == << [tags |-> <<Tag(0, 1000)>>, text |-> "Hello"],
                [tags |-> <<Tag(0, 2500)>>, text |-> "World"] >>
TextMulti == << [tags |-> <<Tag(0, 2000), Tag(0, 500)>>, text |-> "la"],
                [tags |-> <<>>, text |-> "by nobody"],
                [tags |-> <<Tag(0, 1200)>>, text |-> "mid"] >>
TextNoTags == << [tags |-> <<>>, text |-> "plain words"] >>

\* the lyric files on disk when the session starts
InitFiles ==
    [p \in Paths |->
        CASE p = <<"t1", ".lrc">> -> File(TextNoTags)
          [] p = <<"t1", ".txt">> -> File(TextMulti)
          [] p = <<"t2", ".lrc">> -> File(TextHello)
          [] OTHER -> Missing]

\* the texts of the lines a track's lyric files hold
TrackTexts(t) == IF t = "t1" THEN {"la", "mid"} ELSE {"Hello", "World"}

----------------------------------------------------------------------------
(* parseLyrics, App.jsx:65-80 *)

\* Number(m[1]) * 60 + Number(m[2])
TagTime(tag) == tag.min * 60000 + tag.sec

\* one physical line: a LyricLine per tag, all sharing the line's text
RECURSIVE LineEntries(_, _)
LineEntries(tags, text) ==
    IF tags = <<>> THEN <<>>
    ELSE <<[time |-> TagTime(Head(tags)), text |-> text]>> \o LineEntries(Tail(tags), text)

RECURSIVE FlatMapLines(_)
FlatMapLines(raw) ==
    IF raw = <<>> THEN <<>>
    ELSE LineEntries(Head(raw).tags, Head(raw).text) \o FlatMapLines(Tail(raw))

\* insert e after every entry whose time is <= e.time (keeps the sort stable)
RECURSIVE InsertByTime(_, _)
InsertByTime(sorted, e) ==
    IF sorted = <<>> THEN <<e>>
    ELSE IF Head(sorted).time <= e.time
         THEN <<Head(sorted)>> \o InsertByTime(Tail(sorted), e)
         ELSE <<e>> \o sorted

\* .sort((a, b) => a.time - b.time): a stable sort ascending by time
RECURSIVE SortByTime(_)
SortByTime(s) ==
    IF s = <<>> THEN <<>>
    ELSE InsertByTime(SortByTime(SubSeq(s, 1, Len(s) - 1)), s[Len(s)])

parseLyrics(raw) ==
    IF raw = <<>> THEN <<>>
    ELSE SortByTime(FlatMapLines(raw))

----------------------------------------------------------------------------
(* the candidate lyric files of a track, App.jsx:381-386 *)

RECURSIVE Dedupe(_, _)
Dedupe(s, seen) ==
    IF s = <<>> THEN <<>>
    ELSE IF Head(s) \in seen THEN Dedupe(Tail(s), seen)
         ELSE <<Head(s)>> \o Dedupe(Tail(s), seen \cup {Head(s)})

\* candidates that try the files beside the audio file before track.lyricPath
uniqueCandidates_PathLast(t) ==
    Dedupe(<< <<t, ".lrc">>, <<t, ".LRC">>, <<t, ".txt">>, <<t, ".TXT">> >>
             \o (IF TrackLyricPath(t) # NoPath THEN <<TrackLyricPath(t)>> ELSE <<>>), {})

uniqueCandidates(t) ==
    Dedupe((IF TrackLyricPath(t) # NoPath THEN <<TrackLyricPath(t)>> ELSE <<>>)
             \o << <<t, ".lrc">>, <<t, ".LRC">>, <<t, ".txt">>, <<t, ".TXT">> >>, {})

----------------------------------------------------------------------------
(* Manual realignment, App.jsx:750-763 *)

\* Math.round(x * 10) / 10 in milliseconds: to the nearest 100, halves up
RoundTenth(x) == ((x + 50) \div 100) * 100

\* roundedCurrent: Math.max(0, Math.round(currentAtRelease * 10) / 10)
RoundedCurrent(currentAtRelease) == Max(0, RoundTenth(currentAtRelease))

\* a floor taken from the line itself instead of the line before it
MinTarget_OwnLine(prev, idx) == prev[idx].time + MinGap

\* minTarget: idx > 0 ? prev[idx - 1].time + 0.1 : 0
MinTarget(prev, idx) == IF idx > 1 THEN prev[idx - 1].time + MinGap ELSE 0

\* a target that ignores the floor
AlignTarget_NoMinGap(prev, idx, currentAtRelease) == RoundedCurrent(currentAtRelease)

\* target: Math.max(minTarget, roundedCurrent)
AlignTarget(prev, idx, currentAtRelease) ==
    Max(MinTarget(prev, idx), RoundedCurrent(currentAtRelease))

\* delta: target - prev[idx].time
AlignDelta(prev, idx, currentAtRelease) ==
    AlignTarget(prev, idx, currentAtRelease) - prev[idx].time

\* a shift of the released line alone
ShiftTail_OnlyLine(prev, idx, delta) ==
    [i \in 1..Len(prev) |->
        IF i = idx THEN [prev[i] EXCEPT !.time = Max(0, prev[i].time + delta)]
        ELSE prev[i]]

\* prev.map((line, i) => i < idx ? line : {...line, time: Math.max(0, line.time + delta)})
ShiftTail(prev, idx, delta) ==
    [i \in 1..Len(prev) |->
        IF i < idx THEN prev[i]
        ELSE [prev[i] EXCEPT !.time = Max(0, prev[i].time + delta)]]

\* the updater handed to setLyricLines
AlignLines(prev, idx, currentAtRelease) ==
    IF prev = <<>> \/ idx < 1 \/ idx > Len(prev) THEN prev
    ELSE IF Abs(AlignDelta(prev, idx, currentAtRelease)) < AlignEpsilon THEN prev
    ELSE ShiftTail(prev, idx, AlignDelta(prev, idx, currentAtRelease))

----------------------------------------------------------------------------
(* Offset adjustment and save, App.jsx:712-736 *)

\* Number(x.toFixed(2)): to the nearest 10 ms, halves away from zero
ToFixed2(x) == IF x >= 0 THEN ((x + 5) \div 10) * 10 ELSE -(((-x + 5) \div 10) * 10)

\* an adjustment without the clamp
ClampOffset_NoClamp(v, delta) == ToFixed2(v + delta)

\* Math.max(-30, Math.min(30, Number((v + delta).toFixed(2))))
ClampOffset(v, delta) == Max(-OffsetLimit, Min(OffsetLimit, ToFixed2(v + delta)))

\* a save that stores the lines as they stand
ShiftedLines_Unshifted(lines, offset) == lines

\* a shift with the sign of the offset reversed
ShiftedLines_AddOffset(lines, offset) ==
    [i \in 1..Len(lines) |-> [lines[i] EXCEPT !.time = Max(0, lines[i].time + offset)]]

\* a shift without the floor at 0
ShiftedLines_NoClamp(lines, offset) ==
    [i \in 1..Len(lines) |-> [lines[i] EXCEPT !.time = lines[i].time - offset]]

\* lyricLines.map(line => ({...line, time: Math.max(0, line.time - lyricOffsetSec)}))
ShiftedLines(lines, offset) ==
    [i \in 1..Len(lines) |-> [lines[i] EXCEPT !.time = Max(0, lines[i].time - offset)]]

\* the characters of a timestamp tag
DigitChars == <<"0", "1", "2", "3", "4", "5", "6", "7", "8", "9">>
DigitSet == {DigitChars[d] : d \in 1..10}
DigitValue(c) == (CHOOSE d \in 1..10 : DigitChars[d] = c) - 1

\* String(n) for an integer n
RECURSIVE DigitsOf(_)
DigitsOf(n) ==
    IF n < 0 THEN <<"-">> \o DigitsOf(-n)
    ELSE IF n < 10 THEN <<DigitChars[n + 1]>>
    ELSE DigitsOf(n \div 10) \o <<DigitChars[(n % 10) + 1]>>

\* padStart(width, c)
RECURSIVE PadStart(_, _, _)
PadStart(chars, width, c) ==
    IF Len(chars) >= width THEN chars ELSE PadStart(<<c>> \o chars, width, c)

\* a rendering that drops the leading zeros of the fraction
ToFixed3_Unpadded(secMs) ==
    DigitsOf(secMs \div 1000) \o <<".">> \o DigitsOf(secMs % 1000)

\* sec.toFixed(3) for sec given in milliseconds: the integer part, a point and
\* three fractional digits
ToFixed3(secMs) ==
    DigitsOf(secMs \div 1000) \o <<".">> \o PadStart(DigitsOf(secMs % 1000), 3, "0")

\* the tag toLrc renders for a time: ms = Math.round(time * 1000),
\* mm = Math.floor(ms / 60000), sec = (ms - mm * 60000) / 1000, then
\* `[${String(mm).padStart(2, '0')}:${sec.toFixed(3).padStart(6, '0')}]`
RenderTag(ms) ==
    LET mm == ms \div 60000
        secMs == ms - mm * 60000
    IN  <<"[">> \o PadStart(DigitsOf(mm), 2, "0") \o <<":">>
              \o PadStart(ToFixed3(secMs), 6, "0") \o <<"]">>

\* Number(digits) for a run of digits
RECURSIVE NumberOf(_)
NumberOf(chars) ==
    IF chars = <<>> THEN 0
    ELSE NumberOf(SubSeq(chars, 1, Len(chars) - 1)) * 10 + DigitValue(chars[Len(chars)])

\* the position of the first c in chars, 0 when there is none
FirstOf(chars, c) ==
    IF \E i \in 1..Len(chars) : chars[i] = c
    THEN CHOOSE i \in 1..Len(chars) : chars[i] = c /\ \A j \in 1..(i - 1) : chars[j] # c
    ELSE 0

\* Number(m[2]) in milliseconds for the seconds field \d+(?:\.\d+)?; the
\* fields read here have at most three fractional digits
SecondsOf(chars) ==
    LET dot == FirstOf(chars, ".") IN
    IF dot = 0 THEN NumberOf(chars) * 1000
    ELSE LET frac == SubSeq(chars, dot + 1, Len(chars))
             scale == IF Len(frac) = 1 THEN 100 ELSE IF Len(frac) = 2 THEN 10 ELSE 1
         IN  NumberOf(SubSeq(chars, 1, dot - 1)) * 1000 + NumberOf(frac) * scale

\* the tag parseLyrics matches in the characters: Number(m[1]), Number(m[2])
ReadTag(chars) ==
    LET colon == FirstOf(chars, ":") IN
    Tag(NumberOf(SubSeq(chars, 2, colon - 1)),
        SecondsOf(SubSeq(chars, colon + 1, Len(chars) - 1)))

\* the number of digits in a row in chars from position i on
RECURSIVE DigitRun(_, _)
DigitRun(chars, i) ==
    IF i > Len(chars) \/ chars[i] \notin DigitSet THEN 0
    ELSE 1 + DigitRun(chars, i + 1)

\* the length of the match of \[(\d+):(\d+(?:\.\d+)?)\] that starts at
\* position i, 0 when there is none
MatchLen(chars, i) ==
    IF i > Len(chars) \/ chars[i] # "[" THEN 0
    ELSE LET minutes == DigitRun(chars, i + 1)
             colon == i + 1 + minutes
         IN  IF minutes = 0 \/ colon > Len(chars) \/ chars[colon] # ":" THEN 0
             ELSE LET whole == DigitRun(chars, colon + 1)
                      point == colon + 1 + whole
                      frac == IF point <= Len(chars) /\ chars[point] = "."
                              THEN DigitRun(chars, point + 1) ELSE 0
                      close == IF frac > 0 THEN point + 1 + frac ELSE point
                  IN  IF whole > 0 /\ close <= Len(chars) /\ chars[close] = "]"
                      THEN close - i + 1 ELSE 0

\* a scan that stops after the first tag of a line
RECURSIVE MatchAll_FirstOnly(_, _)
MatchAll_FirstOnly(chars, i) ==
    IF i > Len(chars) THEN <<>>
    ELSE IF MatchLen(chars, i) > 0
         THEN <<ReadTag(SubSeq(chars, i, i + MatchLen(chars, i) - 1))>>
         ELSE MatchAll_FirstOnly(chars, i + 1)

\* [...line.matchAll(pattern)]: the tags matched from position i on, left to
\* right, each match resuming after the one before
RECURSIVE MatchAll(_, _)
MatchAll(chars, i) ==
    IF i > Len(chars) THEN <<>>
    ELSE IF MatchLen(chars, i) > 0
         THEN <<ReadTag(SubSeq(chars, i, i + MatchLen(chars, i) - 1))>>
                 \o MatchAll(chars, i + MatchLen(chars, i))
         ELSE MatchAll(chars, i + 1)

\* line.replace(pattern, ''): the characters outside the matches
RECURSIVE StripTags(_, _)
StripTags(chars, i) ==
    IF i > Len(chars) THEN <<>>
    ELSE IF MatchLen(chars, i) > 0 THEN StripTags(chars, i + MatchLen(chars, i))
         ELSE <<chars[i]>> \o StripTags(chars, i + 1)

WhiteSpace == {" ", "\t"}

\* .trim()
RECURSIVE Trim(_)
Trim(chars) ==
    IF chars = <<>> THEN <<>>
    ELSE IF Head(chars) \in WhiteSpace THEN Trim(Tail(chars))
    ELSE IF chars[Len(chars)] \in WhiteSpace THEN Trim(SubSeq(chars, 1, Len(chars) - 1))
    ELSE chars

\* one line of the split text as parseLyrics sees it: its matches and its
\* content
ScanLine(chars) ==
    [tags |-> MatchAll(chars, 1), text |-> Trim(StripTags(chars, 1))]

\* the physical line a rendered tag followed by a text is read back as
ReadLine(chars, text) ==
    [tags |-> MatchAll(chars, 1), text |-> text]

\* the lines written for the times up to three times MaxLineTime and an empty
\* text, worked out once
WrittenLines == [ms \in 0..(3 * MaxLineTime) |-> ReadLine(RenderTag(ms), "")]

\* toLrc: one [mm:ss.fff]text per line
ToLrc(lines) ==
    [i \in 1..Len(lines) |->
        IF lines[i].time \in DOMAIN WrittenLines
        THEN [WrittenLines[lines[i].time] EXCEPT !.text = lines[i].text]
        ELSE ReadLine(RenderTag(lines[i].time), lines[i].text)]

----------------------------------------------------------------------------
(* findLyricsForAudio, main.cjs:349-385. A file path is held as path.parse
   gives it: dir, name and ext, each a sequence of characters. *)

UpperChars == <<"A", "B", "C", "D", "E", "F", "G", "H", "I", "J", "K", "L", "M", "N", "O", "P", "Q", "R", "S", "T", "U", "V", "W", "X", "Y", "Z">>
LowerChars == <<"a", "b", "c", "d", "e", "f", "g", "h", "i", "j", "k", "l", "m", "n", "o", "p", "q", "r", "s", "t", "u", "v", "w", "x", "y", "z">>

\* toLowerCase()
ToLowerCase(chars) ==
    [i \in 1..Len(chars) |->
        IF \E k \in 1..Len(UpperChars) : UpperChars[k] = chars[i]
        THEN LowerChars[CHOOSE k \in 1..Len(UpperChars) : UpperChars[k] = chars[i]]
        ELSE chars[i]]

\* fp.replaceAll('\\\\', '/'): every pair of backslashes becomes a slash
RECURSIVE ReplaceBackslashPairs(_)
ReplaceBackslashPairs(chars) ==
    IF chars = <<>> THEN <<>>
    ELSE IF Len(chars) >= 2 /\ chars[1] = "\\" /\ chars[2] = "\\"
         THEN <<"/">> \o ReplaceBackslashPairs(SubSeq(chars, 3, Len(chars)))
         ELSE <<Head(chars)>> \o ReplaceBackslashPairs(Tail(chars))

normalizeId(fp) == ToLowerCase(ReplaceBackslashPairs(fp))

\* .replace(/\s+/g, '')
RECURSIVE StripWhiteSpace(_)
StripWhiteSpace(chars) ==
    IF chars = <<>> THEN <<>>
    ELSE IF Head(chars) \in WhiteSpace THEN StripWhiteSpace(Tail(chars))
         ELSE <<Head(chars)>> \o StripWhiteSpace(Tail(chars))

\* name.normalize('NFKC').trim().toLowerCase(); the names here are ASCII,
\* which NFKC leaves as they are
StemOf(name) == ToLowerCase(Trim(name))
LooseStemOf(name) == StripWhiteSpace(StemOf(name))

\* hay.includes(needle)
Includes(hay, needle) ==
    \E i \in 0..(Len(hay) - Len(needle)) : SubSeq(hay, i + 1, i + Len(needle)) = needle

\* null
NoFile == [null |-> TRUE]

\* a filter that lets every lyric file through
Candidates_AnyDir(audioDir, lyricFiles) == lyricFiles

\* lyricFiles.filter((f) => normalizeId(path.dirname(f)) === audioDir)
Candidates(audioDir, lyricFiles) ==
    SelectSeq(lyricFiles, LAMBDA f : normalizeId(f.dir) = audioDir)

\* a scan that keeps the last file whose stem is equal, whatever its extension
RECURSIVE TierScan_LastEqual(_, _, _, _)
TierScan_LastEqual(candidates, target, loose, found) ==
    IF candidates = <<>> THEN found
    ELSE LET file == Head(candidates)
             stem == IF loose THEN LooseStemOf(file.name) ELSE StemOf(file.name)
         IN  TierScan_LastEqual(Tail(candidates), target, loose,
                                IF stem = target THEN file ELSE found)

\* the loop of tier 1 (loose = FALSE) and of tier 2 (loose = TRUE): the first
\* file of equal stem whose extension is .lrc, else the last file of equal
\* stem, else found as it was
RECURSIVE TierScan(_, _, _, _)
TierScan(candidates, target, loose, found) ==
    IF candidates = <<>> THEN found
    ELSE LET file == Head(candidates)
             stem == IF loose THEN LooseStemOf(file.name) ELSE StemOf(file.name)
         IN  IF stem = target
             THEN IF ToLowerCase(file.ext) = <<".", "l", "r", "c">> THEN file
                  ELSE TierScan(Tail(candidates), target, loose, file)
             ELSE TierScan(Tail(candidates), target, loose, found)

\* candidates.find(...) || null: the first candidate whose loose stem contains
\* the audio file's or is contained in it
RECURSIVE ByContain(_, _)
ByContain(candidates, audioStemLoose) ==
    IF candidates = <<>> THEN NoFile
    ELSE LET stem == LooseStemOf(Head(candidates).name) IN
         IF Includes(stem, audioStemLoose) \/ Includes(audioStemLoose, stem)
         THEN Head(candidates)
         ELSE ByContain(Tail(candidates), audioStemLoose)

\* a resolver that consults the whitespace-insensitive tier before the exact one
findLyricsForAudio_LooseFirst(audioFile, lyricFiles) ==
    LET audioDir == normalizeId(audioFile.dir)
        audioStem == StemOf(audioFile.name)
        audioStemLoose == StripWhiteSpace(audioStem)
        candidates == Candidates(audioDir, lyricFiles)
        exact == TierScan(candidates, audioStem, FALSE, NoFile)
        loose == TierScan(candidates, audioStemLoose, TRUE, NoFile)
    IN  IF candidates = <<>> THEN NoFile
        ELSE IF loose # NoFile THEN loose
        ELSE IF exact # NoFile THEN exact
        ELSE ByContain(candidates, audioStemLoose)

findLyricsForAudio(audioFile, lyricFiles) ==
    LET audioDir == normalizeId(audioFile.dir)
        audioStem == StemOf(audioFile.name)
        audioStemLoose == StripWhiteSpace(audioStem)
        candidates == Candidates(audioDir, lyricFiles)
        exact == TierScan(candidates, audioStem, FALSE, NoFile)
        loose == TierScan(candidates, audioStemLoose, TRUE, NoFile)
    IN  IF candidates = <<>> THEN NoFile
        ELSE IF exact # NoFile THEN exact
        ELSE IF loose # NoFile THEN loose
        ELSE ByContain(candidates, audioStemLoose)

----------------------------------------------------------------------------
(* Decoding, main.cjs:255-326. A buffer is a sequence of bytes. TextDecoder is
   the platform's: the text it gives for bytes under an encoding is held as
   that pair together with what the scoring reads in it (whether an LRC tag
   occurs, the number of CJK characters in tens, of U+FFFD and of NUL
   characters), stated per encoding by `platform`, where NoDecoder says
   that the runtime has no decoder of that name. *)

EmptyText == [empty |-> TRUE]
\* the runtime has no decoder of a name
NoDecoder == [unsupported |-> TRUE]
Thrown == [thrown |-> TRUE]

\* the labels new TextDecoder(label) accepts among those the program uses
DecoderLabels == {"utf-8", "gb18030", "gbk", "big5", "shift_jis", "euc-kr", "utf-16le"}

\* new TextDecoder(enc).decode(bytes): a RangeError for a label the runtime
\* does not know, the empty string for no bytes
TextDecoderDecode(enc, bytes, platform) ==
    IF enc \notin DecoderLabels \/ platform[enc] = NoDecoder THEN Thrown
    ELSE IF bytes = <<>> THEN EmptyText
    ELSE [enc |-> enc, bytes |-> bytes, chars |-> platform[enc]]

\* decodeUtf16be, main.cjs:255-264: the bytes of every whole pair swapped, an
\* odd last byte dropped, the rest decoded as utf-16le
SwapPairs(buf) ==
    LET evenLen == Len(buf) - (Len(buf) % 2) IN
    [i \in 1..evenLen |-> IF i % 2 = 1 THEN buf[i + 1] ELSE buf[i - 1]]

decodeUtf16be(buf, platform) ==
    IF Len(buf) < 2 THEN EmptyText
    ELSE TextDecoderDecode("utf-16le", SwapPairs(buf), platform)

\* the score of the empty text, main.cjs:267
LowestScore == -1000000000

\* scoreDecodedText, main.cjs:266-273 (cjk counts tens of characters: 0.1 each)
scoreDecodedText(txt) ==
    IF txt = EmptyText THEN LowestScore
    ELSE (IF txt.chars.tagged THEN 1000 ELSE 0) + txt.chars.cjk
            - txt.chars.bad * 40 - txt.chars.nul * 3

\* the test of main.cjs:299
IsTagged(txt) == txt # EmptyText /\ txt.chars.tagged

AutoEncodings == <<"utf-8", "gb18030", "gbk", "big5", "shift_jis", "euc-kr", "utf-16le">>

\* the loop of main.cjs:295-311 from encoding i on; acc holds best, bestScore,
\* bestTagged and bestTaggedScore
RECURSIVE ScoreLoop(_, _, _, _)
ScoreLoop(i, buf, platform, acc) ==
    IF i > Len(AutoEncodings) THEN acc
    ELSE LET txt == TextDecoderDecode(AutoEncodings[i], buf, platform) IN
         IF txt = Thrown THEN ScoreLoop(i + 1, buf, platform, acc)
         ELSE LET score == scoreDecodedText(txt)
                  withTagged == IF IsTagged(txt) /\ score > acc.bestTaggedScore
                                THEN [acc EXCEPT !.bestTaggedScore = score, !.bestTagged = txt]
                                ELSE acc
                  withBest == IF score > acc.bestScore
                              THEN [withTagged EXCEPT !.bestScore = score, !.best = txt]
                              ELSE withTagged
              IN  ScoreLoop(i + 1, buf, platform, withBest)

\* a choice that prefers the overall winner to the tagged one
Winner_BestFirst(buf, platform) ==
    LET acc == ScoreLoop(1, buf, platform,
                         [best |-> EmptyText, bestScore |-> LowestScore,
                          bestTagged |-> EmptyText, bestTaggedScore |-> LowestScore])
    IN  IF acc.best # EmptyText THEN acc.best
        ELSE IF acc.bestTagged # EmptyText THEN acc.bestTagged
        ELSE TextDecoderDecode("utf-8", buf, platform)

\* bestTagged || best || new TextDecoder('utf-8').decode(buf), main.cjs:290-311
Winner(buf, platform) ==
    LET acc == ScoreLoop(1, buf, platform,
                         [best |-> EmptyText, bestScore |-> LowestScore,
                          bestTagged |-> EmptyText, bestTaggedScore |-> LowestScore])
    IN  IF acc.bestTagged # EmptyText THEN acc.bestTagged
        ELSE IF acc.best # EmptyText THEN acc.best
        ELSE TextDecoderDecode("utf-8", buf, platform)

\* a decoder that scores the candidates whatever the first bytes are
decodeTextSmart_NoMarks(buf, platform) ==
    IF buf = <<>> THEN EmptyText ELSE Winner(buf, platform)

\* decodeTextSmart, main.cjs:275-311
decodeTextSmart(buf, platform) ==
    IF buf = <<>> THEN EmptyText
    ELSE IF Len(buf) >= 3 /\ buf[1] = 239 /\ buf[2] = 187 /\ buf[3] = 191
    THEN TextDecoderDecode("utf-8", SubSeq(buf, 4, Len(buf)), platform)
    ELSE IF Len(buf) >= 2 /\ buf[1] = 255 /\ buf[2] = 254
    THEN TextDecoderDecode("utf-16le", SubSeq(buf, 3, Len(buf)), platform)
    ELSE IF Len(buf) >= 2 /\ buf[1] = 254 /\ buf[2] = 255
    THEN decodeUtf16be(SubSeq(buf, 3, Len(buf)), platform)
    ELSE Winner(buf, platform)

\* the names the program compares an encoding with, and their characters
EncodingNames == {"auto", "utf-8", "gb18030", "gbk", "big5", "shift_jis", "euc-kr", "utf-16le", "utf-16be"}
Spelling(l) ==
    CASE l = "auto" -> <<"a", "u", "t", "o">>
          [] l = "utf-8" -> <<"u", "t", "f", "-", "8">>
          [] l = "gb18030" -> <<"g", "b", "1", "8", "0", "3", "0">>
          [] l = "gbk" -> <<"g", "b", "k">>
          [] l = "big5" -> <<"b", "i", "g", "5">>
          [] l = "shift_jis" -> <<"s", "h", "i", "f", "t", "_", "j", "i", "s">>
          [] l = "euc-kr" -> <<"e", "u", "c", "-", "k", "r">>
          [] l = "utf-16le" -> <<"u", "t", "f", "-", "1", "6", "l", "e">>
          [] l = "utf-16be" -> <<"u", "t", "f", "-", "1", "6", "b", "e">>

\* the name that is spelled chars: "" for no character, "other" for a
\* spelling that is none of the names
NameOf(chars) ==
    IF chars = <<>> THEN ""
    ELSE IF \E l \in EncodingNames : Spelling(l) = chars
    THEN CHOOSE l \in EncodingNames : Spelling(l) = chars
    ELSE "other"

\* decodeTextWithEncoding, main.cjs:313-326; encoding is given by its
\* characters, none for a missing one
decodeTextWithEncoding(buf, encoding, platform) ==
    LET enc == NameOf(ToLowerCase(encoding))
    IN  IF buf = <<>> THEN EmptyText
        ELSE IF enc = "" \/ enc = "auto" THEN decodeTextSmart(buf, platform)
        ELSE IF enc = "utf-16be"
        THEN IF Len(buf) >= 2 /\ buf[1] = 254 /\ buf[2] = 255
             THEN decodeUtf16be(SubSeq(buf, 3, Len(buf)), platform)
             ELSE decodeUtf16be(buf, platform)
        ELSE IF enc = "utf-16le"
        THEN IF Len(buf) >= 2 /\ buf[1] = 255 /\ buf[2] = 254
             THEN TextDecoderDecode("utf-16le", SubSeq(buf, 3, Len(buf)), platform)
             ELSE TextDecoderDecode("utf-16le", buf, platform)
        ELSE TextDecoderDecode(enc, buf, platform)

----------------------------------------------------------------------------
(* audio:readBuffer, main.cjs:844-869. A file is given by its extension
   (path.extname), by whether fs.readFile can read it, and by what ffmpeg
   does with it: "ok", "fails", or "missing" when there is no ffmpeg. *)

\* transcodeWmaToWavBuffer, main.cjs:168-176: stdout, or null when execFile
\* fails
transcodeWmaToWavBuffer(file) ==
    IF file.ffmpeg = "ok" THEN [bytes |-> "transcoded"] ELSE NoFile

\* fs.readFile: the bytes, or an exception
ReadFile(file) == IF file.readable THEN [bytes |-> "file"] ELSE Thrown

\* a handler that gives up when the transcoder does
readAudioBuffer_NoFallback(file) ==
    IF ToLowerCase(file.ext) = <<".", "w", "m", "a">>
    THEN IF transcodeWmaToWavBuffer(file) # NoFile
         THEN [kind |-> "wav-transcoded", data |-> transcodeWmaToWavBuffer(file)]
         ELSE NoFile
    ELSE IF ReadFile(file) = Thrown THEN NoFile
         ELSE [kind |-> "raw", data |-> ReadFile(file)]

\* the handler of audio:readBuffer
readAudioBuffer(file) ==
    IF ToLowerCase(file.ext) = <<".", "w", "m", "a">>
    THEN IF transcodeWmaToWavBuffer(file) # NoFile
         THEN [kind |-> "wav-transcoded", data |-> transcodeWmaToWavBuffer(file)]
         ELSE IF ReadFile(file) = Thrown THEN NoFile
              ELSE [kind |-> "wma-raw", data |-> ReadFile(file)]
    ELSE IF ReadFile(file) = Thrown THEN NoFile
         ELSE [kind |-> "raw", data |-> ReadFile(file)]

----------------------------------------------------------------------------
(* The line on display, App.jsx:430-453; index 0 is the source's -1 *)

\* a loop that asks for the time to be passed, not reached
RECURSIVE ScanDown_Strict(_, _, _)
ScanDown_Strict(lines, i, t) ==
    IF i < 1 THEN 0
    ELSE IF t > lines[i].time THEN i
    ELSE ScanDown_Strict(lines, i - 1, t)

\* the loop of activeLyricIdx from index i down: the first i it meets with
\* t >= lines[i].time
RECURSIVE ScanDown(_, _, _)
ScanDown(lines, i, t) ==
    IF i < 1 THEN 0
    ELSE IF t >= lines[i].time THEN i
    ELSE ScanDown(lines, i - 1, t)

\* an index that points at the line coming up: the first whose time is not passed
ActiveIdxOf_NextLine(lines, t) ==
    LET S == {i \in 1..Len(lines) : lines[i].time >= t}
    IN  IF S = {} THEN 0 ELSE CHOOSE i \in S : \A j \in S : i <= j

\* activeLyricIdx for the lines and the adjusted time t
ActiveIdxOf(lines, t) ==
    IF Len(lines) = 0 THEN 0 ELSE ScanDown(lines, Len(lines), t)

\* lyricLines[i]?.text || ''
TextAt(lines, i) == IF i \in 1..Len(lines) THEN lines[i].text ELSE ""

\* currentLyricLine for the lines and the active index
CurrentLineOf(lines, active) ==
    IF Len(lines) = 0 THEN ""
    ELSE IF active < 1 THEN TextAt(lines, 1)
    ELSE TextAt(lines, active)

\* a next line that repeats line 1 while no line is active
NextLineOf_SameLine(lines, active) ==
    IF Len(lines) = 0 THEN ""
    ELSE IF active < 1 THEN TextAt(lines, 1)
    ELSE TextAt(lines, active + 1)

\* nextLyricLine for the lines and the active index
NextLineOf(lines, active) ==
    IF Len(lines) = 0 THEN ""
    ELSE IF active < 1 THEN TextAt(lines, 2)
    ELSE TextAt(lines, active + 1)

----------------------------------------------------------------------------
(* State machine *)

MsgNone == ""
MsgUnreadable == "cannot read or decode"
MsgTranscoded == "WMA transcoded"
MsgWmaRaw == "WMA raw stream"
MsgUnsupported == "format not supported"
MsgReadFailed == "audio read failed"
MsgSaveFailed == "lyric offset save failed"
MsgDownloadFailed == "lyric download failed"

\* what the last step was and what it acted on
Did(op, idx, stale) == [op |-> op, idx |-> idx, stale |-> stale]

\* the main process after the window was created, main.cjs:15-16, 461;
\* closeBehavior is 'ask' in fresh data, 189
InitWindow ==
    /\ isQuitting = FALSE
    /\ isHandlingClose = FALSE
    /\ closeHandlers = <<>>
    /\ mainWindow = "shown"
    /\ appTray = FALSE
    /\ appQuit = FALSE
    /\ closeBehavior = "ask"

\* the session when the window opens on library d with the lyric files `disk`
Start(disk, d) ==
    /\ currentTrackId = NoTrack
    /\ isPlaying = FALSE
    /\ time = 0
    /\ trackDuration = 0
    /\ playError = MsgNone
    /\ lyricDebugPath = NoPath
    /\ lyricOffsetSec = 0
    /\ lyricAdjustMode = FALSE
    /\ holdLyricIdx = NoHold
    /\ lyricLines = <<>>
    /\ sourceSwitching = FALSE
    /\ audioTime = 0
    /\ audioSrc = NoBlob
    /\ datasetBlobUrl = NoBlob
    /\ blobUrls = EmptyBag
    /\ audioLoads = <<>>
    /\ lyricLoads = <<>>
    /\ saves = <<>>
    /\ files = disk
    /\ data = d
    /\ pendingQueue = <<>>
    /\ scans = <<>>
    /\ call = NoCall
    /\ ret = NoCall
    /\ downloads = <<>>
    /\ query = ""
    /\ InitWindow
    /\ last = Did("init", NoHold, FALSE)
    /\ edits = 0

Init == Start(InitFiles, InitData)

RemoveAt(s, k) == SubSeq(s, 1, k - 1) \o SubSeq(s, k + 1, Len(s))

\* a cleanup that leaves `canceled` unset
CancelAll_NoCleanup(loads) == loads

\* the cleanup of the loadSource effect sets `canceled` of the load it started
CancelAll(loads) == [k \in 1..Len(loads) |-> [loads[k] EXCEPT !.canceled = TRUE]]

\* URL.createObjectURL and URL.revokeObjectURL: the URL store gains a new URL
\* for the blob, and loses the URL given if it holds it
CreateObjectURL(urls, t) == urls (+) SetToBag({t})
RevokeObjectURL(urls, url) == IF BagIn(url, urls) THEN urls (-) SetToBag({url}) ELSE urls

\* a player that never revokes
ReleasePrevious_Skipped(urls, prevUrl) == urls

\* `if (prevUrl) URL.revokeObjectURL(prevUrl)`, App.jsx:312-313 and 345-347
ReleasePrevious(urls, prevUrl) ==
    IF prevUrl # NoBlob THEN RevokeObjectURL(urls, prevUrl) ELSE urls

\* the ids of data.tracks
TrackIds(d) == {d.tracks[i] : i \in 1..Len(d.tracks)}

\* the effects a change of currentTrackId to id runs, with isPlaying becoming
\* `playing` and data becoming d in the same render: the loadSource cleanup
\* and restart (App.jsx:290-353) and loadLyrics (374-405).  currentTrack is
\* null when d has no track of that id: loadSource returns at once and
\* loadLyrics clears the lines.
TrackChangeEffects(id, playing, d) ==
    /\ blobUrls' = ReleasePrevious(blobUrls, datasetBlobUrl)
    /\ datasetBlobUrl' = NoBlob
    /\ IF id \in TrackIds(d)
       THEN /\ Len(audioLoads) < MaxAudioLoads
            /\ Len(lyricLoads) < MaxLyricLoads
            /\ sourceSwitching' = TRUE
            /\ audioLoads' = Append(CancelAll(audioLoads),
                                    [track |-> id, canceled |-> FALSE, pc |-> "read", playing |-> playing])
            /\ lyricLoads' = Append(lyricLoads, [track |-> id, i |-> 1, enc |-> d.lyricEncodingMap[id]])
            /\ UNCHANGED lyricLines
       ELSE /\ sourceSwitching' = FALSE
            /\ audioLoads' = CancelAll(audioLoads)
            /\ lyricLines' = <<>>
            /\ UNCHANGED lyricLoads
    /\ UNCHANGED <<audioTime, audioSrc>>

\* a reset effect that does not run
ResetOnTrackChange_Skipped == UNCHANGED <<lyricOffsetSec, lyricAdjustMode, holdLyricIdx>>

\* the reset effect on currentTrackId, App.jsx:407-412
ResetOnTrackChange ==
    /\ lyricOffsetSec' = 0
    /\ lyricAdjustMode' = FALSE
    /\ holdLyricIdx' = NoHold

\* playTrack(id), App.jsx:504-510, with the effects a change of currentTrackId
\* runs; the handler itself sets what the reset effect (407-412) sets
playTrack(id) ==
    /\ lyricAdjustMode' = FALSE
    /\ holdLyricIdx' = NoHold
    /\ lyricOffsetSec' = 0
    /\ isPlaying' = TRUE
    /\ currentTrackId' = id
    /\ IF id = currentTrackId
       THEN UNCHANGED <<audioVars, audioLoads, lyricLoads, lyricLines>>
       ELSE TrackChangeEffects(id, TRUE, data)
    /\ UNCHANGED <<edits, time, trackDuration, playError, lyricDebugPath, saves, files>>

\* a click on track id of the list
PlayTrack(id) ==
    /\ id \in Tracks
    /\ playTrack(id)
    /\ last' = Did("playTrack", NoHold, FALSE)
    /\ UNCHANGED <<libraryVars, callVars, handlerVars>>

\* what audio:readBuffer answers for a track, main.cjs:844-869
ReadKinds(t) == IF TrackExt(t) = ".wma" THEN {"null", "wav-transcoded", "wma-raw"}
                ELSE {"null", "raw"}

StatusOfKind(kind) ==
    IF kind = "wav-transcoded" THEN MsgTranscoded
    ELSE IF kind = "wma-raw" THEN MsgWmaRaw ELSE MsgNone

\* a null answer that shows the message and leaves playback on
ShowUnreadable_KeepsPlaying == playError' = MsgUnreadable /\ UNCHANGED isPlaying

\* the `if (!raw)` branch of loadSource, App.jsx:299-303
ShowUnreadable == playError' = MsgUnreadable /\ isPlaying' = FALSE

\* the continuation of loadSource after `await readAudioBuffer` resolved with
\* `kind`, App.jsx:298-334, and its finally block when it returns
ResolveRead(k, kind) ==
    LET load == audioLoads[k] IN
    IF load.canceled
    THEN /\ sourceSwitching' = FALSE
         /\ audioLoads' = RemoveAt(audioLoads, k)
         /\ UNCHANGED <<sessionVars, audioTime, audioSrc, datasetBlobUrl, blobUrls>>
    ELSE IF kind = "null"
    THEN /\ ShowUnreadable
         /\ sourceSwitching' = FALSE
         /\ audioLoads' = RemoveAt(audioLoads, k)
         /\ UNCHANGED <<currentTrackId, time, trackDuration, audioTime, audioSrc, datasetBlobUrl, blobUrls>>
    ELSE /\ blobUrls' = ReleasePrevious(CreateObjectURL(blobUrls, load.track), datasetBlobUrl)
         /\ datasetBlobUrl' = load.track
         /\ audioSrc' = load.track
         /\ audioTime' = 0
         /\ time' = 0
         /\ trackDuration' = TrackDurationOf(load.track)
         /\ playError' = StatusOfKind(kind)
         /\ IF load.playing
            THEN /\ audioLoads' = [audioLoads EXCEPT ![k].pc = "play"]
                 /\ UNCHANGED sourceSwitching
            ELSE /\ audioLoads' = RemoveAt(audioLoads, k)
                 /\ sourceSwitching' = FALSE
         /\ UNCHANGED <<currentTrackId, isPlaying>>

AudioReadResolve(k, kind) ==
    /\ k \in 1..Len(audioLoads)
    /\ audioLoads[k].pc = "read"
    /\ kind \in ReadKinds(audioLoads[k].track)
    /\ ResolveRead(k, kind)
    /\ last' = Did(IF kind = "null" THEN "audioReadNull" ELSE "audioReadData",
                   NoHold, audioLoads[k].canceled)
    /\ UNCHANGED <<edits, lyricVars, lyricLoads, saves, files>>
    /\ UNCHANGED <<libraryVars, callVars, handlerVars>>

\* `await readAudioBuffer` rejected: the catch and finally blocks, App.jsx:335-340
AudioReadReject(k) ==
    /\ k \in 1..Len(audioLoads)
    /\ audioLoads[k].pc = "read"
    /\ playError' = MsgReadFailed
    /\ isPlaying' = FALSE
    /\ sourceSwitching' = FALSE
    /\ audioLoads' = RemoveAt(audioLoads, k)
    /\ last' = Did("audioReadReject", NoHold, audioLoads[k].canceled)
    /\ UNCHANGED <<edits, currentTrackId, time, trackDuration, audioTime, audioSrc, datasetBlobUrl, blobUrls,
                   lyricVars, lyricLoads, saves, files>>
    /\ UNCHANGED <<libraryVars, callVars, handlerVars>>

\* `await audio.play()` settled, App.jsx:330-333, then the finally block
AudioPlaySettle(k, ok) ==
    /\ k \in 1..Len(audioLoads)
    /\ audioLoads[k].pc = "play"
    /\ IF ok THEN UNCHANGED <<playError, isPlaying>>
       ELSE playError' = MsgUnsupported /\ isPlaying' = FALSE
    /\ sourceSwitching' = FALSE
    /\ audioLoads' = RemoveAt(audioLoads, k)
    /\ last' = Did("audioPlaySettle", NoHold, audioLoads[k].canceled)
    /\ UNCHANGED <<edits, currentTrackId, time, trackDuration, audioTime, audioSrc, datasetBlobUrl, blobUrls,
                   lyricVars, lyricLoads, saves, files>>
    /\ UNCHANGED <<libraryVars, callVars, handlerVars>>

\* a text of the model's files read as UTF-16: no bracket survives, so the
\* text holds no tag
Mojibake == << [tags |-> <<>>, text |-> "garbled"] >>

\* file:readTextWithEncoding, main.cjs:785-792, on the files `disk`: null for
\* a file that cannot be read, else the text decoded as `enc` names
readTextFileWithEncoding(disk, p, enc) ==
    IF ~disk[p].exists THEN Missing
    ELSE IF enc = "utf-16le" THEN File(Mojibake)
    ELSE disk[p]

\* one turn of the candidate loop of loadLyrics after its `await` of the read
\* of candidate i, App.jsx:387-402: the candidate supplies the lines, or the
\* loop reads the next candidate, or the candidates are exhausted
LyricReadDone(k) ==
    /\ k \in 1..Len(lyricLoads)
    /\ LET load == lyricLoads[k]
           cands == uniqueCandidates(load.track)
           txt == readTextFileWithEncoding(files, cands[load.i], load.enc)
           parsed == IF txt.exists THEN parseLyrics(txt.text) ELSE <<>>
           stale == load.track # currentTrackId
       IN  IF Len(parsed) > 0
           THEN /\ lyricDebugPath' = cands[load.i]
                /\ lyricLines' = parsed
                /\ lyricLoads' = RemoveAt(lyricLoads, k)
                /\ last' = Did("lyricLoaded", NoHold, stale)
           ELSE IF load.i < Len(cands)
           THEN /\ lyricLoads' = [lyricLoads EXCEPT ![k].i = load.i + 1]
                /\ last' = Did("lyricProbe", NoHold, stale)
                /\ UNCHANGED <<lyricDebugPath, lyricLines>>
           ELSE /\ lyricDebugPath' = cands[1]
                /\ lyricLines' = <<>>
                /\ lyricLoads' = RemoveAt(lyricLoads, k)
                /\ last' = Did("lyricNone", NoHold, stale)
    /\ UNCHANGED <<edits, sessionVars, lyricOffsetSec, lyricAdjustMode, holdLyricIdx,
                   audioVars, audioLoads, saves, files>>
    /\ UNCHANGED <<libraryVars, callVars, handlerVars>>

\* the playback engine moves its clock (playing on, or a seek)
AudioSeek(v) ==
    /\ audioSrc # NoBlob
    /\ v \in ClockVals
    /\ v # audioTime
    /\ audioTime' = v
    /\ last' = Did("audioSeek", NoHold, FALSE)
    /\ UNCHANGED <<edits, sessionVars, lyricVars, sourceSwitching, audioSrc, datasetBlobUrl, blobUrls,
                   asyncVars, files>>
    /\ UNCHANGED <<libraryVars, callVars, handlerVars>>

\* onTimeUpdate, App.jsx:891
TimeUpdate ==
    /\ time # audioTime
    /\ time' = audioTime
    /\ last' = Did("timeUpdate", NoHold, FALSE)
    /\ UNCHANGED <<edits, currentTrackId, isPlaying, trackDuration, playError, lyricVars,
                   audioVars, asyncVars, files>>
    /\ UNCHANGED <<libraryVars, callVars, handlerVars>>

\* adjustLyricOffset(delta), App.jsx:712-721
AdjustLyricOffset(delta) ==
    /\ lyricOffsetSec' = ClampOffset(lyricOffsetSec, delta)
    /\ time' = audioTime
    /\ last' = Did("adjustLyricOffset", NoHold, FALSE)
    /\ UNCHANGED <<edits, currentTrackId, isPlaying, trackDuration, playError, lyricDebugPath,
                   lyricAdjustMode, holdLyricIdx, lyricLines, audioVars, asyncVars, files>>
    /\ UNCHANGED <<libraryVars, callVars, handlerVars>>

\* the adjust-mode button, App.jsx:1149-1153
ToggleAdjustMode ==
    /\ lyricAdjustMode' = ~lyricAdjustMode
    /\ holdLyricIdx' = NoHold
    /\ last' = Did("toggleAdjustMode", NoHold, FALSE)
    /\ UNCHANGED <<edits, sessionVars, lyricDebugPath, lyricOffsetSec, lyricLines,
                   audioVars, asyncVars, files>>
    /\ UNCHANGED <<libraryVars, callVars, handlerVars>>

\* currentAtRelease: (audioRef.current?.currentTime ?? time) + lyricOffsetSec
CurrentAtRelease == audioTime + lyricOffsetSec

\* adjustedLyricTime, App.jsx:277
adjustedLyricTime == time + lyricOffsetSec

\* activeLyricIdx, App.jsx:430-436
activeLyricIdx == ActiveIdxOf(lyricLines, adjustedLyricTime)

\* currentLyricLine, App.jsx:438-442
currentLyricLine == CurrentLineOf(lyricLines, activeLyricIdx)

\* nextLyricLine, App.jsx:449-453
nextLyricLine == NextLineOf(lyricLines, activeLyricIdx)

\* what the updateLyricsWindow effect sends, App.jsx:464-474: it runs again
\* whenever one of these values changes
LyricsWindowPayload ==
    [hasLyrics |-> Len(lyricLines) > 0, current |-> currentLyricLine, next |-> nextLyricLine]

\* a click that applies the realignment to whatever line is clicked while
\* another one is held
LineClick_ApplyOnRetarget(idx) ==
    /\ lyricAdjustMode
    /\ idx \in 1..Len(lyricLines)
    /\ IF holdLyricIdx = NoHold
       THEN /\ holdLyricIdx' = idx
            /\ last' = Did("hold", idx, FALSE)
            /\ UNCHANGED lyricLines
       ELSE /\ lyricLines' = AlignLines(lyricLines, idx, CurrentAtRelease)
            /\ holdLyricIdx' = NoHold
            /\ last' = Did(IF holdLyricIdx = idx THEN "release" ELSE "retarget", idx, FALSE)
    /\ edits' = IF lyricLines' # lyricLines THEN edits + 1 ELSE edits
    /\ edits' <= MaxEdits
    /\ UNCHANGED <<sessionVars, lyricDebugPath, lyricOffsetSec, lyricAdjustMode,
                   audioVars, asyncVars, files>>
    /\ UNCHANGED <<libraryVars, callVars, handlerVars>>

\* onClick of lyric line idx, App.jsx:1266-1282, with applyAlignAtCurrent
LineClick(idx) ==
    /\ lyricAdjustMode
    /\ idx \in 1..Len(lyricLines)
    /\ IF holdLyricIdx = NoHold
       THEN /\ holdLyricIdx' = idx
            /\ last' = Did("hold", idx, FALSE)
            /\ UNCHANGED lyricLines
       ELSE IF holdLyricIdx = idx
       THEN /\ lyricLines' = AlignLines(lyricLines, idx, CurrentAtRelease)
            /\ holdLyricIdx' = NoHold
            /\ last' = Did("release", idx, FALSE)
       ELSE /\ holdLyricIdx' = idx
            /\ last' = Did("retarget", idx, FALSE)
            /\ UNCHANGED lyricLines
    /\ edits' = IF lyricLines' # lyricLines THEN edits + 1 ELSE edits
    /\ edits' <= MaxEdits
    /\ UNCHANGED <<sessionVars, lyricDebugPath, lyricOffsetSec, lyricAdjustMode,
                   audioVars, asyncVars, files>>
    /\ UNCHANGED <<libraryVars, callVars, handlerVars>>

\* saveLyricOffsetToFile up to its await, App.jsx:723-737
SaveStart ==
    /\ lyricDebugPath # NoPath
    /\ lyricLines # <<>>
    /\ Len(saves) < MaxSaves
    /\ edits < MaxEdits
    /\ edits' = edits + 1
    /\ LET shiftedLines == ShiftedLines(lyricLines, lyricOffsetSec) IN
         /\ lyricOffsetSec < 0 => \A i \in 1..Len(shiftedLines) : shiftedLines[i].time <= MaxLineTime
         /\ saves' = Append(saves, [path |-> lyricDebugPath, shiftedLines |-> shiftedLines,
                                    track |-> currentTrackId])
    /\ last' = Did("saveStart", NoHold, FALSE)
    /\ UNCHANGED <<sessionVars, lyricVars, audioVars, audioLoads, lyricLoads, files>>
    /\ UNCHANGED <<libraryVars, callVars, handlerVars>>

\* a completion that resets the offset and the adjust mode whatever the write
\* answered
SaveWriteDone_ResetOnFailure(k, ok) ==
    /\ k \in 1..Len(saves)
    /\ LET save == saves[k] IN
         /\ IF ok
            THEN /\ files' = [files EXCEPT ![save.path] = File(ToLrc(save.shiftedLines))]
                 /\ lyricLines' = save.shiftedLines
                 /\ playError' = MsgNone
            ELSE /\ playError' = MsgSaveFailed
                 /\ UNCHANGED <<files, lyricLines>>
         /\ lyricOffsetSec' = 0
         /\ lyricAdjustMode' = FALSE
         /\ holdLyricIdx' = NoHold
         /\ last' = Did(IF ok THEN "saveDone" ELSE "saveFailed", NoHold,
                        save.track # currentTrackId)
    /\ saves' = RemoveAt(saves, k)
    /\ UNCHANGED <<edits, currentTrackId, isPlaying, time, trackDuration, lyricDebugPath,
                   audioVars, audioLoads, lyricLoads>>
    /\ UNCHANGED <<libraryVars, callVars, handlerVars>>

\* writeTextFile answered `ok`, App.jsx:738-747 (file:writeText, main.cjs:794-802)
SaveWriteDone(k, ok) ==
    /\ k \in 1..Len(saves)
    /\ LET save == saves[k] IN
         /\ IF ok
            THEN /\ files' = [files EXCEPT ![save.path] = File(ToLrc(save.shiftedLines))]
                 /\ lyricLines' = save.shiftedLines
                 /\ lyricOffsetSec' = 0
                 /\ lyricAdjustMode' = FALSE
                 /\ holdLyricIdx' = NoHold
                 /\ playError' = MsgNone
            ELSE /\ playError' = MsgSaveFailed
                 /\ UNCHANGED <<files, lyricLines, lyricOffsetSec, lyricAdjustMode, holdLyricIdx>>
         /\ last' = Did(IF ok THEN "saveDone" ELSE "saveFailed", NoHold,
                        save.track # currentTrackId)
    /\ saves' = RemoveAt(saves, k)
    /\ UNCHANGED <<edits, currentTrackId, isPlaying, time, trackDuration, lyricDebugPath,
                   audioVars, audioLoads, lyricLoads>>
    /\ UNCHANGED <<libraryVars, callVars, handlerVars>>

----------------------------------------------------------------------------
(* The library: the play list, the queue, removals, App.jsx:512-692 *)

\* the searchable text of a track, App.jsx:103: its title; the tracks of the
\* model are titled by their ids
Searchable(t) == t

\* the texts typed into the search box: nothing, the title of t1, and a text
\* no title contains
Queries == {"", "t1", "zz"}

\* trackMatchesTokens for a query of one token, App.jsx:101-106
trackMatchesTokens(t, q) == q = "" \/ Searchable(t) = q

\* activePlayList, App.jsx:513 with displayTracks, 801-804: the tracks on
\* display in list order, which are the tracks the search box matches
activePlayList == SelectSeq(data.tracks, LAMBDA t : trackMatchesTokens(t, query))

\* typing into the search box, App.jsx:1012-1016
SetQuery(q) ==
    /\ q # query
    /\ query' = q
    /\ last' = Did("setQuery", NoHold, FALSE)
    /\ UNCHANGED <<sessionVars, lyricVars, audioVars, asyncVars, files, libraryVars, callVars,
                   downloads, windowVars, edits>>

\* findIndex: the first position of id in list, 0 when absent
IndexOf(list, id) ==
    IF \E i \in 1..Len(list) : list[i] = id
    THEN CHOOSE i \in 1..Len(list) : list[i] = id /\ \A j \in 1..(i - 1) : list[j] # id
    ELSE 0

\* what no track change touches
LibraryFrame == UNCHANGED <<data, scans, callVars, handlerVars>>

\* the handler changed isPlaying or the clock and nothing else of the session
OnlyPlayback ==
    UNCHANGED <<currentTrackId, time, trackDuration, playError, lyricVars, sourceSwitching,
                audioSrc, datasetBlobUrl, blobUrls, asyncVars, files, edits>>

\* playNext, App.jsx:512-555 (also the audio element's onEnded, 893)
PlayNext ==
    /\ IF Len(activePlayList) = 0
       THEN UNCHANGED <<sessionVars, lyricVars, audioVars, asyncVars, files, edits, pendingQueue>>
       ELSE IF pendingQueue # <<>>
       THEN /\ pendingQueue' = Tail(pendingQueue)
            /\ playTrack(Head(pendingQueue))
       ELSE /\ UNCHANGED pendingQueue
            /\ IF currentTrackId = NoTrack
               THEN playTrack(activePlayList[1])
               ELSE IF data.playMode = "random"
               THEN LET pool == SelectSeq(activePlayList, LAMBDA t : t # currentTrackId)
                    IN  IF pool = <<>>
                        THEN UNCHANGED <<sessionVars, lyricVars, audioVars, asyncVars, files,
                                         edits>>
                        ELSE \E i \in 1..Len(pool) : playTrack(pool[i])
               ELSE IF data.playMode = "loop"
               THEN /\ audioTime' = 0
                    /\ \E ok \in BOOLEAN : isPlaying' = IF ok THEN isPlaying ELSE FALSE
                    /\ OnlyPlayback
               ELSE LET idx == IndexOf(activePlayList, currentTrackId) IN
                    IF idx = 0 THEN playTrack(activePlayList[1])
                    ELSE IF idx >= Len(activePlayList)
                    THEN /\ isPlaying' = FALSE
                         /\ UNCHANGED audioTime
                         /\ OnlyPlayback
                    ELSE playTrack(activePlayList[idx + 1])
    /\ last' = Did("playNext", NoHold, FALSE)
    /\ LibraryFrame

\* playPrev, App.jsx:557-577
PlayPrev ==
    /\ Len(activePlayList) > 0
    /\ IF currentTrackId = NoTrack
       THEN playTrack(activePlayList[1])
       ELSE LET idx == IndexOf(activePlayList, currentTrackId) IN
            IF idx = 0 THEN playTrack(activePlayList[1])
            ELSE IF idx = 1
            THEN /\ data.playMode = "loop"
                 /\ playTrack(activePlayList[Len(activePlayList)])
            ELSE playTrack(activePlayList[idx - 1])
    /\ last' = Did("playPrev", NoHold, FALSE)
    /\ UNCHANGED pendingQueue
    /\ LibraryFrame

\* "play next" of a track's context menu, App.jsx:1385
Enqueue(id) ==
    /\ id \in TrackIds(data)
    /\ Len(pendingQueue) < MaxQueue
    /\ pendingQueue' = <<id>> \o pendingQueue
    /\ last' = Did("enqueue", NoHold, FALSE)
    /\ UNCHANGED <<sessionVars, lyricVars, audioVars, asyncVars, files, edits, data, scans, callVars, handlerVars>>

\* cyclePlayMode, App.jsx:117-121
cyclePlayMode(mode) ==
    IF mode = "sequence" THEN "random" ELSE IF mode = "random" THEN "loop" ELSE "sequence"

\* the play-mode button, App.jsx:1322
CyclePlayMode ==
    /\ data' = [data EXCEPT !.playMode = cyclePlayMode(data.playMode)]
    /\ last' = Did("cyclePlayMode", NoHold, FALSE)
    /\ UNCHANGED <<sessionVars, lyricVars, audioVars, asyncVars, files, edits, pendingQueue, scans,
                   callVars, handlerVars>>

\* the filter of a list
RECURSIVE FilterSeq(_, _)
FilterSeq(list, keep) ==
    IF list = <<>> THEN <<>>
    ELSE IF Head(list) \in keep THEN <<Head(list)>> \o FilterSeq(Tail(list), keep)
         ELSE FilterSeq(Tail(list), keep)

\* loadLyrics runs again when data changes so that currentTrack appears or
\* disappears while currentTrackId stays (its dependencies, App.jsx:405)
LibraryChangeEffects(d) ==
    IF (currentTrackId \in TrackIds(data)) = (currentTrackId \in TrackIds(d))
    THEN UNCHANGED <<lyricLines, lyricLoads>>
    ELSE IF currentTrackId \in TrackIds(d)
    THEN /\ Len(lyricLoads) < MaxLyricLoads
         /\ lyricLoads' = Append(lyricLoads, [track |-> currentTrackId, i |-> 1,
                                            enc |-> d.lyricEncodingMap[currentTrackId]])
         /\ UNCHANGED lyricLines
    ELSE /\ lyricLines' = <<>>
         /\ UNCHANGED lyricLoads

\* toggleLike(id), App.jsx:579-588: the flag flips and the favorites playlist
\* becomes the liked tracks
ToggleLike(id) ==
    /\ id \in TrackIds(data)
    /\ LET liked == [data.liked EXCEPT ![id] = ~data.liked[id]]
       IN  data' = [data EXCEPT !.liked = liked,
                                !.playlists["favorites"] = {t \in TrackIds(data) : liked[t]}]
    /\ last' = Did("toggleLike", NoHold, FALSE)
    /\ UNCHANGED <<sessionVars, lyricVars, audioVars, asyncVars, files, edits, pendingQueue, scans,
                   callVars, handlerVars>>

\* addTrackToPlaylist(trackId, targetId), App.jsx:630-639; the context menu
\* of a track offers every playlist of data.playlists, App.jsx:1387-1389
AddTrackToPlaylist(trackId, targetId) ==
    /\ trackId \in TrackIds(data)
    /\ targetId \in PlaylistIds
    /\ data' = [data EXCEPT !.playlists[targetId] = @ \cup {trackId}]
    /\ last' = Did("addTrackToPlaylist", NoHold, FALSE)
    /\ UNCHANGED <<sessionVars, lyricVars, audioVars, asyncVars, files, edits, pendingQueue, scans,
                   callVars, handlerVars>>

\* removeTrack(trackId), App.jsx:641-651; `held`: the history keeps the line
\* held before the removal
RemoveTrack(trackId) ==
    /\ trackId \in TrackIds(data)
    /\ data' = [data EXCEPT !.tracks = FilterSeq(data.tracks, TrackIds(data) \ {trackId}),
                            !.liked[trackId] = FALSE,
                            !.playlists = [p \in PlaylistIds |-> data.playlists[p] \ {trackId}]]
    /\ IF currentTrackId = trackId
       THEN /\ currentTrackId' = NoTrack
            /\ isPlaying' = FALSE
            /\ TrackChangeEffects(NoTrack, FALSE, data')
            /\ ResetOnTrackChange
       ELSE UNCHANGED <<currentTrackId, isPlaying, lyricOffsetSec, lyricAdjustMode, holdLyricIdx,
                        lyricLines, audioVars, audioLoads, lyricLoads>>
    /\ last' = Did("removeTrack", holdLyricIdx, FALSE)
    /\ UNCHANGED <<time, trackDuration, playError, lyricDebugPath, saves, files, edits,
                   pendingQueue, scans, callVars, handlerVars>>

\* removeManagedFolder(folderPath) up to `await scanFolders`, App.jsx:679-684;
\* the closure keeps the currentTrackId of the render it was created in
RemoveFolderStart(folderPath) ==
    /\ folderPath \in data.scanFolders
    /\ Len(scans) < MaxScans
    /\ scans' = Append(scans, [folders |-> data.scanFolders \ {folderPath},
                               track |-> currentTrackId])
    /\ last' = Did("removeFolder", NoHold, FALSE)
    /\ UNCHANGED <<sessionVars, lyricVars, audioVars, asyncVars, files, edits, data, pendingQueue,
                   callVars, handlerVars>>

\* what scanFolders(folders) answers, main.cjs:411-457: the tracks found on
\* disk under the folders, the settings kept
Scanned(folders) ==
    LET found == {t \in Tracks : TrackFolder(t) \in folders}
        liked == [t \in Tracks |-> t \in found /\ t \in TrackIds(data) /\ data.liked[t]]
    IN  [data EXCEPT !.tracks = FilterSeq(InitData.tracks, found),
                     !.scanFolders = folders,
                     !.liked = liked,
                     !.playlists = [p \in PlaylistIds |->
                                       IF p = "favorites" THEN {t \in found : liked[t]}
                                       ELSE data.playlists[p] \cap found]]

\* removeManagedFolder after `await scanFolders`, App.jsx:685-692
RemoveFolderDone(k) ==
    /\ k \in 1..Len(scans)
    /\ LET scan == scans[k]
           scanned == Scanned(scan.folders)
           gone == scan.track # NoTrack /\ scan.track \notin TrackIds(scanned)
           id == IF ~gone THEN currentTrackId
                 ELSE IF scanned.tracks # <<>> THEN scanned.tracks[1] ELSE NoTrack
           playing == IF gone /\ scanned.tracks = <<>> THEN FALSE ELSE isPlaying
       IN  /\ data' = scanned
           /\ currentTrackId' = id
           /\ isPlaying' = playing
           /\ IF id # currentTrackId
              THEN /\ TrackChangeEffects(id, playing, scanned)
                   /\ ResetOnTrackChange
              ELSE /\ LibraryChangeEffects(scanned)
                   /\ UNCHANGED <<lyricOffsetSec, lyricAdjustMode, holdLyricIdx, audioVars, audioLoads>>
           /\ last' = Did("folderScanned", holdLyricIdx, scan.track # currentTrackId)
    /\ scans' = RemoveAt(scans, k)
    /\ UNCHANGED <<time, trackDuration, playError, lyricDebugPath, saves, files, edits,
                   pendingQueue, callVars, handlerVars>>

\* no audio load and no lyric load is in flight
----------------------------------------------------------------------------
(* Lyric download and lyric encoding, App.jsx:778-799, 1125-1137 *)

\* the text a lyric download leaves on disk
TextDownload == << [tags |-> <<Tag(0, 700)>>, text |-> "fresh"] >>

\* the lyricPath scan:singleTrack finds for track t on the files `disk`
\* (parseTrack with findLyricsForAudio, main.cjs:759-774, 349-385): a .lrc
\* file of the track's name before a .txt file
ScanLyricPath(disk, t) ==
    IF disk[<<t, ".lrc">>].exists THEN <<t, ".lrc">>
    ELSE IF disk[<<t, ".LRC">>].exists THEN <<t, ".LRC">>
    ELSE IF disk[<<t, ".txt">>].exists THEN <<t, ".txt">>
    ELSE IF disk[<<t, ".TXT">>].exists THEN <<t, ".TXT">>
    ELSE NoPath

\* the loadLyrics effect after data became d: it runs again when the current
\* track's lyricPath or lyricEncoding is no longer what it was, App.jsx:405
LyricDepsEffect(d) ==
    IF /\ currentTrackId \in TrackIds(data) \cap TrackIds(d)
       /\ \/ d.lyricPaths[currentTrackId] # data.lyricPaths[currentTrackId]
          \/ d.lyricEncodingMap[currentTrackId] # data.lyricEncodingMap[currentTrackId]
    THEN /\ Len(lyricLoads) < MaxLyricLoads
         /\ lyricLoads' = Append(lyricLoads, [track |-> currentTrackId, i |-> 1,
                                            enc |-> d.lyricEncodingMap[currentTrackId]])
    ELSE UNCHANGED lyricLoads

\* a download for track t ended (the will-download hook, main.cjs:116-153,
\* saved it beside the audio file as .lrc or .txt) and the 'lyrics:downloaded'
\* event reached the handler, App.jsx:780-784, which awaits rescanTrack
LyricDownloaded(t, ext, ok) ==
    /\ t \in TrackIds(data)
    /\ ext \in {".lrc", ".txt"}
    /\ IF ok
       THEN /\ Len(downloads) < MaxDownloads
            /\ files' = [files EXCEPT ![<<t, ext>>] = File(TextDownload)]
            /\ downloads' = Append(downloads, [track |-> t, current |-> currentTrackId,
                                              pc |-> "rescan", lyricPath |-> NoPath])
            /\ UNCHANGED playError
       ELSE /\ playError' = MsgDownloadFailed
            /\ UNCHANGED <<files, downloads>>
    /\ last' = Did("lyricDownloaded", NoHold, t # currentTrackId)
    /\ UNCHANGED <<currentTrackId, isPlaying, time, trackDuration, lyricVars, audioVars, asyncVars,
                   libraryVars, callVars, query, windowVars, edits>>

\* rescanTrack answered: the handler replaces the track in data and, for the
\* track that was current when the event came, awaits the read of the lyric
\* file found, App.jsx:785-790
RescanDone(k) ==
    /\ k \in 1..Len(downloads)
    /\ downloads[k].pc = "rescan"
    /\ LET dl == downloads[k]
           fresh == ScanLyricPath(files, dl.track)
           d == IF dl.track \in TrackIds(data)
                THEN [data EXCEPT !.lyricPaths[dl.track] = fresh] ELSE data
       IN  /\ data' = d
           /\ LyricDepsEffect(d)
           /\ IF dl.current = dl.track /\ fresh # NoPath
              THEN /\ downloads' = [downloads EXCEPT ![k].pc = "read", ![k].lyricPath = fresh]
                   /\ UNCHANGED playError
              ELSE /\ downloads' = RemoveAt(downloads, k)
                   /\ playError' = MsgNone
           /\ last' = Did("rescanDone", NoHold, dl.track # currentTrackId)
    /\ UNCHANGED <<currentTrackId, isPlaying, time, trackDuration, lyricVars, audioVars, audioLoads,
                   saves, files, pendingQueue, scans, callVars, query, windowVars, edits>>

\* readTextFile answered: the handler sets the lines parsed from the text,
\* and the raw text, and leaves lyricDebugPath, App.jsx:790-794
DownloadReadDone(k) ==
    /\ k \in 1..Len(downloads)
    /\ downloads[k].pc = "read"
    /\ LET dl == downloads[k]
           txt == readTextFileWithEncoding(files, dl.lyricPath, "auto")
       IN  /\ lyricLines' = IF txt.exists THEN parseLyrics(txt.text) ELSE <<>>
           /\ UNCHANGED lyricDebugPath
           /\ playError' = MsgNone
           /\ downloads' = RemoveAt(downloads, k)
           /\ last' = Did("downloadRead", NoHold, dl.track # currentTrackId)
    /\ UNCHANGED <<currentTrackId, isPlaying, time, trackDuration, lyricOffsetSec, lyricAdjustMode,
                   holdLyricIdx, audioVars, asyncVars, files, libraryVars, callVars, query, windowVars, edits>>

\* a click on an encoding of the menu, App.jsx:1125-1137
SetLyricEncoding(value) ==
    /\ currentTrackId # NoTrack
    /\ LET d == [data EXCEPT !.lyricEncodingMap[currentTrackId] = value]
       IN  data' = d /\ LyricDepsEffect(d)
    /\ last' = Did("setLyricEncoding", NoHold, FALSE)
    /\ UNCHANGED <<sessionVars, lyricVars, audioVars, audioLoads, saves, files, pendingQueue, scans,
                   callVars, handlerVars, edits>>

LoadsDone == audioLoads = <<>> /\ lyricLoads = <<>>

\* nothing is awaited: no audio load, lyric load or save is in flight
Quiescent == LoadsDone /\ saves = <<>>

\* Track changes racing with the loads and saves in flight: every
\* interleaving of track changes with the completions of up to MaxAudioLoads
\* audio loads and MaxLyricLoads lyric loads, each with every outcome.  The
\* clock and the offset stay where the loads leave them.
Next ==
    \/ \E id \in Tracks : PlayTrack(id)
    \/ \E k \in 1..MaxAudioLoads, kind \in {"null", "raw", "wav-transcoded", "wma-raw"} :
          AudioReadResolve(k, kind)
    \/ \E k \in 1..MaxAudioLoads : AudioReadReject(k)
    \/ \E k \in 1..MaxAudioLoads, ok \in BOOLEAN : AudioPlaySettle(k, ok)
    \/ \E k \in 1..MaxLyricLoads : LyricReadDone(k)

Spec == Init /\ [][Next]_vars

\* A session in which track t is loaded and playing and nothing is in flight:
\* the state PlayTrack(t) leads to once the audio load has installed its
\* stream and the lyric load has parsed the track's lyric file.
Loaded(t) ==
    LET cands == uniqueCandidates(t)
        found == {i \in 1..Len(cands) :
                     files[cands[i]].exists /\ parseLyrics(files[cands[i]].text) # <<>>}
        first == CHOOSE i \in found : \A j \in found : i <= j
    IN  /\ files = InitFiles
        /\ data = InitData
        /\ currentTrackId = t
        /\ isPlaying = TRUE
        /\ time = 0
        /\ trackDuration = TrackDurationOf(t)
        /\ playError = MsgNone
        /\ lyricDebugPath = cands[first]
        /\ lyricOffsetSec = 0
        /\ lyricAdjustMode = FALSE
        /\ holdLyricIdx = NoHold
        /\ lyricLines = parseLyrics(files[cands[first]].text)
        /\ sourceSwitching = FALSE
        /\ audioTime = 0
        /\ audioSrc = t
        /\ datasetBlobUrl = t
        /\ blobUrls = SetToBag({t})
        /\ audioLoads = <<>>
        /\ lyricLoads = <<>>
        /\ saves = <<>>
        /\ pendingQueue = <<>>
        /\ scans = <<>>
        /\ call = NoCall
        /\ ret = NoCall
        /\ downloads = <<>>
        /\ query = ""
        /\ InitWindow

InitLoaded ==
    /\ \E t \in Tracks : Loaded(t)
    /\ last = Did("init", NoHold, FALSE)
    /\ edits = 0

\* Lyric timing on a loaded track: the clock, the offset (within OffsetVals),
\* adjust mode, the hold/release clicks, saves with either outcome (one
\* awaited at a time) and the reselection of the track, in every order.
NextSync ==
    \/ PlayTrack(currentTrackId)
    \/ \E v \in ClockVals : AudioSeek(v)
    \/ TimeUpdate
    \/ \E delta \in {-OffsetStep, OffsetStep} :
          AdjustLyricOffset(delta) /\ lyricOffsetSec' \in OffsetVals
    \/ ToggleAdjustMode
    \/ \E idx \in 1..Len(lyricLines) : LineClick(idx)
    \/ saves = <<>> /\ SaveStart
    \/ \E k \in 1..MaxSaves, ok \in BOOLEAN : SaveWriteDone(k, ok)

SpecSync == InitLoaded /\ [][NextSync]_vars

\* The offset over its whole range: adjustments, saves with either outcome and
\* track changes.  A track is changed while nothing is in flight, its loads
\* succeed, and the offset is adjusted or saved once they have completed.
NextOffset ==
    \/ \E id \in Tracks : Quiescent /\ PlayTrack(id)
    \/ \E k \in 1..MaxAudioLoads, kind \in {"raw", "wav-transcoded"} : AudioReadResolve(k, kind)
    \/ \E k \in 1..MaxAudioLoads : AudioPlaySettle(k, TRUE)
    \/ \E k \in 1..MaxLyricLoads : LyricReadDone(k)
    \/ \E delta \in {-OffsetStep, OffsetStep} : LoadsDone /\ AdjustLyricOffset(delta)
    \/ LoadsDone /\ SaveStart
    \/ \E k \in 1..MaxSaves, ok \in BOOLEAN : SaveWriteDone(k, ok)

SpecOffset == InitLoaded /\ [][NextOffset]_vars

\* Saves racing with track changes: a save awaits its write while tracks
\* change and their loads (which succeed) complete, in every interleaving.
NextSave ==
    \/ \E id \in Tracks : PlayTrack(id)
    \/ \E k \in 1..MaxAudioLoads, kind \in {"raw", "wav-transcoded"} : AudioReadResolve(k, kind)
    \/ \E k \in 1..MaxAudioLoads : AudioPlaySettle(k, TRUE)
    \/ \E k \in 1..MaxLyricLoads : LyricReadDone(k)
    \/ SaveStart
    \/ \E k \in 1..MaxSaves, ok \in BOOLEAN : SaveWriteDone(k, ok)

SpecSave == Init /\ [][NextSave]_vars

\* Track changes by every path: the list, next and previous, the queue, the
\* removal of tracks and of folders, while the offset is adjusted and lines
\* are held.  The user acts once the loads of the last change (which succeed)
\* have completed; a folder scan completes at any time.
Folders == {TrackFolder(t) : t \in Tracks}

NextTracks ==
    \/ \E id \in Tracks : LoadsDone /\ id \in TrackIds(data) /\ PlayTrack(id)
    \/ LoadsDone /\ PlayNext
    \/ LoadsDone /\ PlayPrev
    \/ \E id \in Tracks : LoadsDone /\ Enqueue(id)
    \/ LoadsDone /\ CyclePlayMode
    \/ \E id \in Tracks : LoadsDone /\ RemoveTrack(id)
    \/ \E f \in Folders : LoadsDone /\ RemoveFolderStart(f)
    \/ \E k \in 1..MaxScans : RemoveFolderDone(k)
    \/ \E k \in 1..MaxAudioLoads : AudioReadResolve(k, "raw")
    \/ \E k \in 1..MaxAudioLoads : AudioPlaySettle(k, TRUE)
    \/ \E k \in 1..MaxLyricLoads : LyricReadDone(k)
    \/ \E delta \in {-OffsetStep, OffsetStep} :
          LoadsDone /\ AdjustLyricOffset(delta) /\ lyricOffsetSec' \in {0, OffsetStep}
    \/ LoadsDone /\ ToggleAdjustMode
    \/ \E idx \in 1..Len(lyricLines) : LoadsDone /\ holdLyricIdx = NoHold /\ LineClick(idx)

SpecTracks == Init /\ [][NextTracks]_vars

\* The line on display: track t2 is loaded with any sorted line sequence of up
\* to MaxViewLines lines (duplicate times, empty texts and no line at all
\* included), read from its lyric file; the clock and the offset move.
ViewTimes == {0, 1000, 1500, 2500}
ViewTexts == {"Hello", "World", ""}
ViewLines ==
    {lines \in UNION {[1..n -> [time : ViewTimes, text : ViewTexts]] : n \in 0..MaxViewLines} :
        \A i \in 1..(Len(lines) - 1) : lines[i].time <= lines[i + 1].time}

\* track t2 loaded with `lines` read from its lyric file, nothing in flight
SessionWith(lines) ==
    /\ lyricLines = lines
    /\ files = [InitFiles EXCEPT ![<<"t2", ".lrc">>] = File(ToLrc(lyricLines))]
    /\ currentTrackId = "t2"
    /\ isPlaying = TRUE
    /\ time = 0
    /\ trackDuration = TrackDurationOf("t2")
    /\ playError = MsgNone
    /\ lyricDebugPath = <<"t2", ".lrc">>
    /\ lyricOffsetSec = 0
    /\ lyricAdjustMode = FALSE
    /\ holdLyricIdx = NoHold
    /\ sourceSwitching = FALSE
    /\ audioTime = 0
    /\ audioSrc = "t2"
    /\ datasetBlobUrl = "t2"
    /\ blobUrls = SetToBag({"t2"})
    /\ audioLoads = <<>>
    /\ lyricLoads = <<>>
    /\ saves = <<>>
    /\ data = InitData
    /\ pendingQueue = <<>>
    /\ scans = <<>>
    /\ call = NoCall
    /\ ret = NoCall
    /\ downloads = <<>>
    /\ query = ""
    /\ InitWindow
    /\ last = Did("init", NoHold, FALSE)
    /\ edits = 0

InitView == \E lines \in ViewLines : SessionWith(lines)

NextView ==
    \/ \E v \in ClockVals : AudioSeek(v)
    \/ TimeUpdate
    \/ \E delta \in {-OffsetStep, OffsetStep} :
          AdjustLyricOffset(delta) /\ lyricOffsetSec' \in OffsetVals

SpecView == InitView /\ [][NextView]_vars

\* The save and the reload of the lyric file: track t2 is loaded with any
\* sorted sequence of up to MaxRoundTripLines lines whose times include the
\* ends of the seconds, minutes and two-digit-minutes ranges; the offset is
\* adjusted and saved.
RoundTripTimes == {0, 1, 999, 59999, 60000, 61005, 5999999, 6000000}
RoundTripLines ==
    {lines \in UNION {[1..n -> [time : RoundTripTimes, text : {"Hello", ""}]] :
                         n \in 0..MaxRoundTripLines} :
        \A i \in 1..(Len(lines) - 1) : lines[i].time <= lines[i + 1].time}

InitRoundTrip == \E lines \in RoundTripLines : SessionWith(lines)

NextRoundTrip ==
    \/ \E delta \in {-OffsetStep, OffsetStep} :
          Quiescent /\ AdjustLyricOffset(delta) /\ lyricOffsetSec' \in OffsetVals
    \/ Quiescent /\ SaveStart
    \/ \E k \in 1..MaxSaves, ok \in BOOLEAN : SaveWriteDone(k, ok)

SpecRoundTrip == InitRoundTrip /\ [][NextRoundTrip]_vars

\* Calls of the pure functions, one call in a behaviour. parseLyrics is given every text of up to
\* MaxRawLines lines drawn from RawLineCases; each case pairs the characters
\* of a line with the tags (minutes field, seconds field in ms) and the
\* content the timestamp pattern and trim give for it.
RawLineCases ==
    {
      [chars |-> <<"[", "0", "0", ":", "0", "1", ".", "5", "]", "H", "i">>,
       tags |-> <<Tag(0, 1500)>>, text |-> <<"H", "i">>],
      [chars |-> <<"[", "0", "1", ":", "0", "2", "]", "[", "0", "0", ":", "0", "0", ".", "5", "]", " ", "l", "a", " ">>,
       tags |-> <<Tag(1, 2000), Tag(0, 500)>>, text |-> <<"l", "a">>],
      [chars |-> <<"n", "o">>,
       tags |-> <<>>, text |-> <<>>],
      [chars |-> <<"[", "x", ":", "1", "]", "b">>,
       tags |-> <<>>, text |-> <<>>],
      [chars |-> <<>>,
       tags |-> <<>>, text |-> <<>>],
      [chars |-> <<" ", "[", "0", ":", "3", "]", "\t">>,
       tags |-> <<Tag(0, 3000)>>, text |-> <<>>],
      [chars |-> <<"[", "0", "0", ":", "0", "1", ".", "5", "]", "a", "[", "2", ":", "7", "0", ".", "2", "5", "]", "b">>,
       tags |-> <<Tag(0, 1500), Tag(2, 70250)>>, text |-> <<"a", "b">>],
      [chars |-> <<"[", "1", ":", "2", ".", "]", "z">>,
       tags |-> <<>>, text |-> <<>>],
      [chars |-> <<"[", "[", "0", ":", "0", "1", "]", "x">>,
       tags |-> <<Tag(0, 1000)>>, text |-> <<"[", "x">>],
      [chars |-> <<"[", "0", "0", "7", ":", "1", "]", "a", " ", "b", " ">>,
       tags |-> <<Tag(7, 1000)>>, text |-> <<"a", " ", "b">>]
    }
RawLines == {c.chars : c \in RawLineCases}
RawTexts == UNION {[1..n -> RawLines] : n \in 0..MaxRawLines}

\* parseLyrics(raw) for a text given as the characters of its lines
parseLyricsText(rawLines) ==
    parseLyrics([i \in 1..Len(rawLines) |-> ScanLine(rawLines[i])])

ParseLyricsCall(rawLines) ==
    /\ call' = [fn |-> "parseLyrics", raw |-> rawLines]
    /\ ret' = parseLyricsText(rawLines)
    /\ UNCHANGED <<sessionVars, lyricVars, audioVars, asyncVars, files, libraryVars, handlerVars, last, edits>>

\* findLyricsForAudio is given an audio file and every list of up to
\* MaxLyricFiles lyric files: directories that differ in case or altogether,
\* names that are equal to the audio file's, equal but for case and blanks,
\* longer, or unrelated, and extensions .lrc, .LRC and .txt.
FileDirs == {<<"/", "a">>, <<"/", "A">>, <<"/", "b">>}
LyricNames == {<<"S", "o", "n", "g">>,
               <<"s", "o", "n", "g", " ">>,
               <<"S", "o", " ", "n", "g">>,
               <<"S", "o", "n", "g", "2">>,
               <<"x">>}
LyricExts == {<<".", "l", "r", "c">>, <<".", "L", "R", "C">>, <<".", "t", "x", "t">>}
AudioNames == {<<" ", "s", "o", "n", "g">>, <<"S", "o", " ", "n", "g">>}
AudioFiles == [dir : {<<"/", "a">>}, name : AudioNames, ext : {<<".", "m", "p", "3">>}]
LyricFiles == [dir : FileDirs, name : LyricNames, ext : LyricExts]
LyricFileLists == UNION {[1..n -> LyricFiles] : n \in 0..MaxLyricFiles}

FindLyricsCall(audioFile, lyricFiles) ==
    /\ call' = [fn |-> "findLyricsForAudio", audioFile |-> audioFile, lyricFiles |-> lyricFiles]
    /\ ret' = findLyricsForAudio(audioFile, lyricFiles)
    /\ UNCHANGED <<sessionVars, lyricVars, audioVars, asyncVars, files, libraryVars, handlerVars, last, edits>>

\* SpecLyrics: the candidate loop of loadLyrics over every state of the first
\* track's lyric files, with that track's lyricPath unset or naming its .txt
\* file (the second track's names its .lrc file); the audio files are
\* unreadable.
LyricDisks ==
    {[InitFiles EXCEPT ![<<"t1", ".lrc">>] = lrc, ![<<"t1", ".LRC">>] = LRC,
                       ![<<"t1", ".txt">>] = txt, ![<<"t1", ".TXT">>] = TXT] :
        lrc \in {Missing, File(TextNoTags), File(TextMulti)},
        txt \in {Missing, File(TextNoTags), File(TextMulti)},
        LRC \in {Missing, File(TextMulti)},
        TXT \in {Missing, File(TextHello)}}

Libraries ==
    {[InitData EXCEPT !.lyricPaths["t1"] = p] : p \in {NoPath, <<"t1", ".txt">>}}

InitLyrics == \E disk \in LyricDisks, d \in Libraries : Start(disk, d)

NextLyrics ==
    \/ \E id \in Tracks : PlayTrack(id)
    \/ \E k \in 1..MaxAudioLoads : AudioReadResolve(k, "null")
    \/ \E k \in 1..MaxLyricLoads : LyricReadDone(k)

SpecLyrics == InitLyrics /\ [][NextLyrics]_vars

\* SpecDownload: lyric downloads, encoding changes and the two-click hold on
\* a loaded track (a line is held or another one is held instead; no line is
\* released).  The tracks change while nothing is awaited and their loads
\* succeed; the first track's lyricPath is unset or names its .lrc file, which
\* holds no timed line; the downloads are .lrc files.
InitDownload ==
    \E p \in {NoPath, <<"t1", ".lrc">>} :
        Start(InitFiles, [InitData EXCEPT !.lyricPaths["t1"] = p])

NextDownload ==
    \/ \E id \in Tracks : Quiescent /\ downloads = <<>> /\ PlayTrack(id)
    \/ \E k \in 1..MaxAudioLoads, kind \in {"raw", "wav-transcoded"} : AudioReadResolve(k, kind)
    \/ \E k \in 1..MaxAudioLoads : AudioPlaySettle(k, TRUE)
    \/ \E k \in 1..MaxLyricLoads : LyricReadDone(k)
    \/ \E t \in Tracks, ok \in BOOLEAN : LoadsDone /\ LyricDownloaded(t, ".lrc", ok)
    \/ \E k \in 1..MaxDownloads : RescanDone(k)
    \/ \E k \in 1..MaxDownloads : DownloadReadDone(k)
    \/ \E value \in {"auto", "utf-16le"} : audioLoads = <<>> /\ SetLyricEncoding(value)
    \/ audioLoads = <<>> /\ ToggleAdjustMode
    \/ \E idx \in 1..Len(lyricLines) :
          audioLoads = <<>> /\ holdLyricIdx # idx /\ LineClick(idx)

SpecDownload == InitDownload /\ [][NextDownload]_vars

\* SpecLibrary: likes, playlists, removals and folder scans on a session
\* that plays nothing
NextLibrary ==
    \/ \E id \in Tracks : ToggleLike(id)
    \/ \E trackId \in Tracks, targetId \in PlaylistIds : AddTrackToPlaylist(trackId, targetId)
    \/ \E trackId \in Tracks : RemoveTrack(trackId)
    \/ \E folderPath \in {"f1", "f2"} : RemoveFolderStart(folderPath)
    \/ \E k \in 1..MaxScans : RemoveFolderDone(k)

SpecLibrary == Init /\ [][NextLibrary]_vars

\* audio:readBuffer is given files of every extension, readable or not, with
\* every outcome of ffmpeg; ffmpeg reads the file itself and succeeds only on
\* a readable one.
AudioFilesOnDisk ==
    {file \in [ext : {<<".", "w", "m", "a">>, <<".", "W", "M", "A">>,
                      <<".", "m", "p", "3">>, <<".", "f", "l", "a", "c">>},
               readable : BOOLEAN, ffmpeg : {"ok", "fails", "missing"}] :
        file.ffmpeg = "ok" => file.readable}

ReadAudioBufferCall(file) ==
    /\ call' = [fn |-> "audio:readBuffer", file |-> file]
    /\ ret' = readAudioBuffer(file)
    /\ UNCHANGED <<sessionVars, lyricVars, audioVars, asyncVars, files, libraryVars, handlerVars, last, edits>>

NextCalls ==
    \/ call = NoCall /\ \E file \in AudioFilesOnDisk : ReadAudioBufferCall(file)
    \/ call = NoCall /\ \E rawLines \in RawTexts : ParseLyricsCall(rawLines)
    \/ call = NoCall /\ \E audioFile \in AudioFiles, lyricFiles \in LyricFileLists :
                           FindLyricsCall(audioFile, lyricFiles)

SpecCalls == Init /\ [][NextCalls]_vars

\* Calls of decodeTextWithEncoding, one call in a behaviour.  What the
\* platform's decoders make of a buffer is drawn: text with CJK characters,
\* garbled text, a tag among many U+FFFD, clean tagged text, or no decoder
\* of that name for the encodings a runtime may lack.
CjkChars == [tagged |-> FALSE, cjk |-> 5, bad |-> 0, nul |-> 0]
GarbledChars == [tagged |-> FALSE, cjk |-> 0, bad |-> 3, nul |-> 1]
TaggedBadChars == [tagged |-> TRUE, cjk |-> 0, bad |-> 30, nul |-> 0]
TaggedChars == [tagged |-> TRUE, cjk |-> 0, bad |-> 0, nul |-> 0]

Platforms ==
    {pf \in [DecoderLabels -> {CjkChars, GarbledChars, TaggedBadChars, TaggedChars, NoDecoder}] :
        /\ pf["utf-8"] # NoDecoder
        /\ pf["utf-16le"] # NoDecoder
        /\ \A e \in {"big5", "shift_jis", "euc-kr"} : pf[e] \in {GarbledChars, TaggedChars, NoDecoder}}

\* every decoder gives clean tagged text
PlatformAllTagged == [e \in DecoderLabels |-> TaggedChars]
\* only utf-8 and utf-16le have a decoder
PlatformSmall ==
    [e \in DecoderLabels |->
        IF e = "utf-8" THEN GarbledChars ELSE IF e = "utf-16le" THEN CjkChars ELSE NoDecoder]

\* the bytes of the byte-order marks and the letter A
BufferBytes == {239, 187, 191, 255, 254, 65}
Buffers == UNION {[1..n -> BufferBytes] : n \in 0..MaxBufLen}

\* encoding hints: none, names of the vocabulary in either case, and a name
\* no decoder has
Hints == {<<>>, <<"a", "u", "t", "o">>,
          <<"A", "U", "T", "O">>,
          <<"u", "t", "f", "-", "8">>,
          <<"g", "b", "k">>,
          <<"u", "t", "f", "-", "1", "6", "l", "e">>,
          <<"u", "t", "f", "-", "1", "6", "b", "e">>,
          <<"U", "T", "F", "-", "1", "6", "B", "E">>,
          <<"l", "a", "t", "i", "n", "-", "9", "9">>}

DecodeCall(buf, encoding, platform) ==
    /\ call' = [fn |-> "decodeTextWithEncoding", buf |-> buf, encoding |-> encoding,
                platform |-> platform]
    /\ ret' = decodeTextWithEncoding(buf, encoding, platform)
    /\ UNCHANGED <<sessionVars, lyricVars, audioVars, asyncVars, files, libraryVars, handlerVars, last, edits>>

NextDecode ==
    \/ call = NoCall /\ \E platform \in Platforms : DecodeCall(<<65>>, <<>>, platform)
    \/ call = NoCall /\ \E buf \in Buffers, encoding \in Hints,
                           platform \in {PlatformAllTagged, PlatformSmall} :
                              DecodeCall(buf, encoding, platform)

SpecDecode == Init /\ [][NextDecode]_vars

----------------------------------------------------------------------------
(* Properties *)

Lines == 1..Len(lyricLines)
Times(lines) == [i \in 1..Len(lines) |-> lines[i].time]
Texts(lines) == [i \in 1..Len(lines) |-> lines[i].text]

\* the step just taken was a click on a lyric line in adjust mode
ClickStep == last'.op \in {"hold", "retarget", "release"}

\* the release as the specification words it: the effective time rounded to a
\* tenth of a second, the floor a tenth after the line before, the larger of both
SpecRounded(effective) == ((effective + 50) \div 100) * 100
SpecMinTarget(lines, h) == IF h > 1 THEN lines[h - 1].time + 100 ELSE 0
SpecTarget(lines, h, effective) ==
    IF SpecMinTarget(lines, h) >= SpecRounded(effective)
    THEN SpecMinTarget(lines, h) ELSE SpecRounded(effective)
SpecDelta(lines, h, effective) == SpecTarget(lines, h, effective) - lines[h].time

\* C1: once no lyric load is in flight, lyricDebugPath and lyricLines hold data
\* loaded for the current track, never for a superseded one.
C1_LyricsOfCurrentTrack ==
    (lyricLoads = <<>> /\ currentTrackId # NoTrack) =>
        /\ lyricDebugPath # NoPath => lyricDebugPath[1] = currentTrackId
        /\ \A i \in Lines : lyricLines[i].text \in TrackTexts(currentTrackId)

C3_ProbingStops ==
    /\ \A k \in 1..Len(lyricLoads) : \A j \in 1..(lyricLoads[k].i - 1) :
          LET f == files[uniqueCandidates(lyricLoads[k].track)[j]]
          IN  ~(f.exists /\ parseLyrics(f.text) # <<>>)
    /\ last.op = "lyricProbe" => ~last.stale

\* C4: the lyric lines are sorted ascending by time and no time is negative.
C4_LinesSortedNonNegative ==
    /\ \A i \in Lines : lyricLines[i].time >= 0
    /\ \A i, j \in Lines : i < j => lyricLines[i].time <= lyricLines[j].time

\* a realignment to 0 followed by a save of offset +0.5 s that clamps line 1
C4_Witness ==
    /\ last.op = "saveDone"
    /\ edits = 2
    /\ Times(lyricLines) = <<0, 200, 1000>>

\* C5: a release on the held line h that changes anything leaves line h at
\* target = max(minTarget, roundedCurrent).
C5_ReleaseSetsTarget ==
    [][ last'.op = "release" =>
          LET h == last'.idx
              effective == audioTime + lyricOffsetSec
          IN  Abs(SpecDelta(lyricLines, h, effective)) >= 1 =>
                 lyricLines'[h].time = SpecTarget(lyricLines, h, effective)
      ]_vars

\* lines at 1.0 and 2.5, line 2 released at an effective time that rounds to 2.0
C5_Witness ==
    /\ last.op = "release"
    /\ last.idx = 2
    /\ RoundTenth(audioTime + lyricOffsetSec) = 2000
    /\ lyricLines = <<[time |-> 1000, text |-> "Hello"], [time |-> 2000, text |-> "World"]>>

\* C6: a release either changes no line (|delta| < 0.001) or moves every line
\* from h on by exactly delta.
C6_ReleaseAllOrNothing ==
    [][ last'.op = "release" =>
          LET h == last'.idx
              delta == SpecDelta(lyricLines, h, audioTime + lyricOffsetSec)
          IN  IF Abs(delta) < 1 THEN lyricLines' = lyricLines
              ELSE /\ Len(lyricLines') = Len(lyricLines)
                   /\ \A i \in h..Len(lyricLines) :
                         lyricLines'[i].time = lyricLines[i].time + delta
      ]_vars

\* line 1 of three released 0.5 s earlier: the two lines after it moved along
C6_Witness ==
    /\ last.op = "release"
    /\ last.idx = 1
    /\ Times(lyricLines) = <<0, 700, 1500>>

\* C7: a release at h leaves the lines before h unchanged, and neither a
\* release nor a completed save changes the number of lines or any text.
C7_OnlyTimesChange ==
    [][ /\ last'.op \in {"release", "saveDone", "saveFailed"} =>
              Texts(lyricLines') = Texts(lyricLines)
        /\ last'.op = "release" =>
              \A i \in 1..(last'.idx - 1) : lyricLines'[i] = lyricLines[i]
      ]_vars

\* C8: a click with no line held only holds the line; a click on another line
\* than the held one only re-targets the hold; line times change only on a
\* click on the held line, after which no line is held.
C8_HoldThenRelease ==
    [][ ClickStep =>
          LET idx == last'.idx IN
          /\ lyricAdjustMode
          /\ holdLyricIdx # idx => holdLyricIdx' = idx /\ lyricLines' = lyricLines
          /\ holdLyricIdx = idx => holdLyricIdx' = NoHold
          /\ lyricLines' # lyricLines => holdLyricIdx = idx /\ holdLyricIdx' = NoHold
      ]_vars

\* a click on line 1 while line 2 was held, after an earlier realignment
C8_Witness ==
    /\ last.op = "retarget"
    /\ holdLyricIdx = 1
    /\ edits >= 1

\* C9: right after a release, releasing the same line again at the same
\* effective time computes a delta below 0.001 and changes no line.
C9_ReleaseIdempotent ==
    last.op = "release" =>
        /\ Abs(AlignDelta(lyricLines, last.idx, CurrentAtRelease)) < AlignEpsilon
        /\ AlignLines(lyricLines, last.idx, CurrentAtRelease) = lyricLines

\* line 3 released before the line ahead of it: moved to minTarget
C9_Witness ==
    /\ last.op = "release"
    /\ last.idx = 3
    /\ Times(lyricLines) = <<500, 1200, 1300>>

\* C10: the offset stays within [-30, 30] s, and a 0.5 s adjustment yields the
\* sum clamped to that range.
C10_OffsetClamped ==
    [][ /\ lyricOffsetSec' >= -30000 /\ lyricOffsetSec' <= 30000
        /\ last'.op = "adjustLyricOffset" =>
              \E d \in {-500, 500} :
                 lyricOffsetSec' = IF lyricOffsetSec + d > 30000 THEN 30000
                                   ELSE IF lyricOffsetSec + d < -30000 THEN -30000
                                   ELSE lyricOffsetSec + d
      ]_vars

\* an adjustment has left the offset at the upper bound
C10_Witness ==
    /\ last.op = "adjustLyricOffset"
    /\ lyricOffsetSec = 30000

\* C11: whenever a step changes the current track, by whatever path, the
\* offset is 0 and no line is held after it.
C11_TrackChangeResets ==
    [][ currentTrackId' # currentTrackId =>
          lyricOffsetSec' = 0 /\ holdLyricIdx' = NoHold ]_vars

\* the current track was removed while a line was held
C11_Witness ==
    /\ last.op = "removeTrack"
    /\ last.idx # NoHold
    /\ currentTrackId = NoTrack
    /\ holdLyricIdx = NoHold

\* the active index as the specification words it: the greatest index whose
\* time is at most the effective time, 0 (the source's -1) when there is none
SpecActive(lines, t) ==
    LET S == {i \in 1..Len(lines) : lines[i].time <= t}
    IN  IF S = {} THEN 0 ELSE CHOOSE i \in S : \A j \in S : j <= i

\* C12: the active index is the greatest index whose time is at most
\* time + offset, none when no line qualifies; of equal times the last.
C12_ActiveIsGreatestReached ==
    activeLyricIdx = SpecActive(lyricLines, time + lyricOffsetSec)

\* three lines of which the last two share the time the effective time has
\* passed: the last of the equal lines is active
C12_Witness ==
    /\ Len(lyricLines) = 3
    /\ lyricLines[2].time = lyricLines[3].time
    /\ lyricLines[1].time < lyricLines[2].time
    /\ time + lyricOffsetSec >= lyricLines[3].time
    /\ activeLyricIdx = 3
    /\ last.op = "timeUpdate"

\* C13: a step that moves the effective time forward over the same lines never
\* moves the active index back.
C13_ActiveMonotone ==
    [][ (lyricLines' = lyricLines /\ adjustedLyricTime' >= adjustedLyricTime) =>
           activeLyricIdx' >= activeLyricIdx ]_vars

\* the effective time moved forward past the second line
C13_Witness ==
    /\ last.op = "adjustLyricOffset"
    /\ lyricOffsetSec = 500
    /\ time = 1040
    /\ Len(lyricLines) = 2
    /\ lyricLines[2].time = 1500
    /\ activeLyricIdx = 2

\* C14: the current line is the text of line 1 when no line is active and lines
\* exist, of the active line otherwise, and empty without lines; the next line
\* is the text of the line after the active one (of line 2 when none is
\* active), empty when there is no such line; the overlay payload carries both.
C14_CurrentAndNextLine ==
    LET a == SpecActive(lyricLines, time + lyricOffsetSec)
        n == Len(lyricLines)
        cur == IF n = 0 THEN "" ELSE IF a = 0 THEN lyricLines[1].text ELSE lyricLines[a].text
        nxt == IF a + 1 \in 2..n THEN lyricLines[a + 1].text
               ELSE IF a = 0 /\ n >= 2 THEN lyricLines[2].text ELSE ""
    IN  /\ currentLyricLine = cur
        /\ nextLyricLine = nxt
        /\ LyricsWindowPayload.current = cur
        /\ LyricsWindowPayload.next = nxt

\* lines Hello at 1.0 and World at 2.5 at effective time 1.54: Hello, then World
C14_Witness ==
    /\ lyricLines = <<[time |-> 1000, text |-> "Hello"], [time |-> 2500, text |-> "World"]>>
    /\ time + lyricOffsetSec = 1540
    /\ activeLyricIdx = 1
    /\ LyricsWindowPayload.current = "Hello"
    /\ LyricsWindowPayload.next = "World"

\* C15: a save takes, for every line i, the time max(0, lines[i].time - offset)
\* and the same text; when its write succeeds the file holds one tag of that
\* time per line, the lines in memory are those shifted lines and the offset
\* is 0.
C15_SaveShiftsAndResets ==
    [][ /\ last'.op = "saveStart" =>
              LET shifted == saves'[Len(saves')].shiftedLines IN
              /\ Len(shifted) = Len(lyricLines)
              /\ \A i \in 1..Len(lyricLines) :
                    /\ shifted[i].text = lyricLines[i].text
                    /\ shifted[i].time = IF lyricLines[i].time - lyricOffsetSec > 0
                                         THEN lyricLines[i].time - lyricOffsetSec ELSE 0
        /\ last'.op = "saveDone" =>
              \E k \in 1..Len(saves) :
                 LET shifted == saves[k].shiftedLines
                     written == files'[saves[k].path]
                 IN  /\ saves' = RemoveAt(saves, k)
                     /\ lyricLines' = shifted
                     /\ lyricOffsetSec' = 0
                     /\ written.exists
                     /\ Len(written.text) = Len(shifted)
                     /\ \A i \in 1..Len(shifted) :
                           /\ Len(written.text[i].tags) = 1
                           /\ TagTime(written.text[i].tags[1]) = shifted[i].time
                           /\ written.text[i].text = shifted[i].text
      ]_vars

\* an offset of -0.5 s saved: Hello and World moved from 1.0 and 2.5 to 1.5 and 3.0
C15_Witness ==
    /\ last.op = "saveDone"
    /\ lyricOffsetSec = 0
    /\ lyricLines = <<[time |-> 1500, text |-> "Hello"], [time |-> 3000, text |-> "World"]>>
    /\ parseLyrics(files[<<"t2", ".lrc">>].text) = lyricLines

\* C16: a save whose write fails leaves the offset, the lines, the adjust mode
\* and the held index as they were and sets the error message; a save started
\* again from there takes the same shifted lines as the failed one did, when
\* nothing was changed while it was awaited.
C16_FailedSaveKeepsState ==
    [][ last'.op = "saveFailed" =>
          /\ UNCHANGED <<lyricOffsetSec, lyricLines, lyricAdjustMode, holdLyricIdx>>
          /\ playError' = MsgSaveFailed
          /\ \E k \in 1..Len(saves) :
                /\ saves' = RemoveAt(saves, k)
                /\ saves[k].shiftedLines = ShiftedLines(lyricLines, lyricOffsetSec) =>
                      ShiftedLines(lyricLines', lyricOffsetSec') = saves[k].shiftedLines
      ]_vars

\* the write failed with an offset of 0.5 s pending and a line held
C16_Witness ==
    /\ last.op = "saveFailed"
    /\ lyricOffsetSec = 500
    /\ lyricAdjustMode
    /\ holdLyricIdx # NoHold
    /\ playError = MsgSaveFailed

\* the shape [mm:ss.fff]: mm of at least two digits, ss of two digits below
\* 60, exactly three fractional digits
WellFormedTag(chars) ==
    LET colon == FirstOf(chars, ":") IN
    /\ chars[1] = "["
    /\ colon >= 4
    /\ \A i \in 2..(colon - 1) : chars[i] \in DigitSet
    /\ Len(chars) = colon + 7
    /\ chars[colon + 1] \in DigitSet /\ chars[colon + 2] \in DigitSet
    /\ DigitValue(chars[colon + 1]) * 10 + DigitValue(chars[colon + 2]) < 60
    /\ chars[colon + 3] = "."
    /\ \A i \in (colon + 4)..(colon + 6) : chars[i] \in DigitSet
    /\ chars[colon + 7] = "]"

CaseOf(chars) == CHOOSE c \in RawLineCases : c.chars = chars

\* the lines the tags of the physical lines of raw call for, in file order
RECURSIVE ExpectedEntries(_)
ExpectedEntries(raw) ==
    IF raw = <<>> THEN <<>>
    ELSE LET c == CaseOf(Head(raw)) IN
         [k \in 1..Len(c.tags) |->
             [time |-> c.tags[k].min * 60000 + c.tags[k].sec, text |-> c.text]]
           \o ExpectedEntries(Tail(raw))

Occurrences(seq, e) == Cardinality({i \in 1..Len(seq) : seq[i] = e})

\* C18: parseLyrics returns exactly one line per timestamp tag of the text,
\* with the time minutes*60 + seconds of the tag and the content of the tag's
\* physical line (tags removed, trimmed); a line without a tag gives nothing;
\* the result is in ascending order of time.
C18_OneLinePerTag ==
    call.fn = "parseLyrics" =>
        LET expected == ExpectedEntries(call.raw) IN
        /\ Len(ret) = Len(expected)
        /\ \A i \in 1..Len(expected) :
              Occurrences(ret, expected[i]) = Occurrences(expected, expected[i])
        /\ \A i \in 1..(Len(ret) - 1) : ret[i].time <= ret[i + 1].time

\* a line with two tags after a line with one: three lines, the later tag
\* of the second physical line first
C18_Witness ==
    /\ call.fn = "parseLyrics"
    /\ Len(call.raw) = 2
    /\ Len(CaseOf(call.raw[1]).tags) = 1
    /\ Len(CaseOf(call.raw[2]).tags) = 2
    /\ Len(ret) = 3
    /\ ret[1].time = 500
    /\ ret[1].text = <<"l", "a">>

SameDirectory(a, b) == ToLowerCase(a.dir) = ToLowerCase(b.dir)
InList(file, list) == \E i \in 1..Len(list) : list[i] = file
IsLrc(file) == ToLowerCase(file.ext) = <<".", "l", "r", "c">>

\* C19: findLyricsForAudio returns null or one of the given lyric files whose
\* directory is the audio file's but for case; it returns null when no given
\* lyric file is in that directory.
C19_ResultInAudioDirectory ==
    call.fn = "findLyricsForAudio" =>
        /\ ret # NoFile =>
              /\ InList(ret, call.lyricFiles)
              /\ SameDirectory(ret, call.audioFile)
        /\ (\A i \in 1..Len(call.lyricFiles) :
               ~SameDirectory(call.lyricFiles[i], call.audioFile)) => ret = NoFile

\* a file of the audio file's name in another directory comes first and is
\* passed over for a file in the audio file's directory under another case
C19_Witness ==
    /\ call.fn = "findLyricsForAudio"
    /\ call.audioFile.dir = <<"/", "a">>
    /\ Len(call.lyricFiles) = 2
    /\ call.lyricFiles[1].dir = <<"/", "b">>
    /\ StemOf(call.lyricFiles[1].name) = StemOf(call.audioFile.name)
    /\ IsLrc(call.lyricFiles[1])
    /\ ret = call.lyricFiles[2]
    /\ ret.dir = <<"/", "A">>

\* a given lyric file in the audio file's directory with the audio file's
\* exact stem and the extension .lrc
ExactLrc(file, audioFile) ==
    /\ SameDirectory(file, audioFile)
    /\ StemOf(file.name) = StemOf(audioFile.name)
    /\ IsLrc(file)

\* C20: when the list holds a file in the audio file's directory with the
\* audio file's exact stem and the extension .lrc, the result is such a file,
\* whatever else the list holds and in whatever order.
C20_ExactLrcFirst ==
    (/\ call.fn = "findLyricsForAudio"
     /\ \E i \in 1..Len(call.lyricFiles) : ExactLrc(call.lyricFiles[i], call.audioFile))
        => /\ InList(ret, call.lyricFiles)
           /\ ExactLrc(ret, call.audioFile)

\* the exact-stem .lrc file is returned although an exact-stem .txt file
\* follows it in the list
C20_Witness ==
    /\ call.fn = "findLyricsForAudio"
    /\ Len(call.lyricFiles) = 2
    /\ ExactLrc(call.lyricFiles[1], call.audioFile)
    /\ SameDirectory(call.lyricFiles[2], call.audioFile)
    /\ StemOf(call.lyricFiles[2].name) = StemOf(call.audioFile.name)
    /\ ~IsLrc(call.lyricFiles[2])
    /\ ret = call.lyricFiles[1]

\* the given lyric files in the audio file's directory whose stem matches the
\* audio file's in tier 1 (exact), 2 (whitespace-insensitive) or 3 (containment)
TierFiles(tier, audioFile, lyricFiles) ==
    {lyricFiles[i] : i \in
        {i \in 1..Len(lyricFiles) :
            /\ SameDirectory(lyricFiles[i], audioFile)
            /\ CASE tier = 1 -> StemOf(lyricFiles[i].name) = StemOf(audioFile.name)
                 [] tier = 2 -> LooseStemOf(lyricFiles[i].name) = LooseStemOf(audioFile.name)
                 [] OTHER -> \/ Includes(LooseStemOf(lyricFiles[i].name), LooseStemOf(audioFile.name))
                             \/ Includes(LooseStemOf(audioFile.name), LooseStemOf(lyricFiles[i].name))}}

\* C21: the result comes from the first tier that has a match, in the order
\* exact stem, whitespace-insensitive stem, containment; it is null when no
\* tier has one.
C21_FirstTierWins ==
    call.fn = "findLyricsForAudio" =>
        LET exact == TierFiles(1, call.audioFile, call.lyricFiles)
            loose == TierFiles(2, call.audioFile, call.lyricFiles)
            contain == TierFiles(3, call.audioFile, call.lyricFiles)
        IN  /\ exact # {} => ret \in exact
            /\ (exact = {} /\ loose # {}) => ret \in loose
            /\ (exact = {} /\ loose = {} /\ contain # {}) => ret \in contain
            /\ (exact = {} /\ loose = {} /\ contain = {}) => ret = NoFile

\* an exact-stem .txt file is returned although a whitespace-insensitive .lrc
\* match stands before it in the list
C21_Witness ==
    /\ call.fn = "findLyricsForAudio"
    /\ Len(call.lyricFiles) = 2
    /\ call.lyricFiles[1] \in TierFiles(2, call.audioFile, call.lyricFiles)
    /\ call.lyricFiles[1] \notin TierFiles(1, call.audioFile, call.lyricFiles)
    /\ IsLrc(call.lyricFiles[1])
    /\ call.lyricFiles[2] \in TierFiles(1, call.audioFile, call.lyricFiles)
    /\ ~IsLrc(call.lyricFiles[2])
    /\ ret = call.lyricFiles[2]

\* the call is in auto mode
AutoMode == NameOf(ToLowerCase(call.encoding)) \in {"", "auto"}

\* the byte-order mark call.buf begins with
MarkOf(buf) ==
    IF Len(buf) >= 3 /\ SubSeq(buf, 1, 3) = <<239, 187, 191>> THEN "utf-8"
    ELSE IF Len(buf) >= 2 /\ SubSeq(buf, 1, 2) = <<255, 254>> THEN "utf-16le"
    ELSE IF Len(buf) >= 2 /\ SubSeq(buf, 1, 2) = <<254, 255>> THEN "utf-16be"
    ELSE "none"

\* the candidate decodings of call.buf
CandidateTexts ==
    {TextDecoderDecode(e, call.buf, call.platform) : e \in DecoderLabels} \ {Thrown}

BestOf(texts, txt) ==
    /\ txt \in texts
    /\ \A other \in texts : scoreDecodedText(txt) >= scoreDecodedText(other)

\* C22: in auto mode on bytes without a byte-order mark, the result is the
\* best-scoring decoding among those that hold a tag when there is one,
\* whatever the untagged decodings score, and the best-scoring decoding of all
\* when none holds a tag.
C22_TaggedDecodingFirst ==
    (/\ call.fn = "decodeTextWithEncoding"
     /\ AutoMode
     /\ call.buf # <<>>
     /\ MarkOf(call.buf) = "none")
        => LET tagged == {txt \in CandidateTexts : txt.chars.tagged} IN
           IF tagged # {} THEN BestOf(tagged, ret) ELSE BestOf(CandidateTexts, ret)

\* the tagged decoding returned scores lower than an untagged candidate
C22_Witness ==
    /\ call.fn = "decodeTextWithEncoding"
    /\ AutoMode
    /\ MarkOf(call.buf) = "none"
    /\ ret \in CandidateTexts
    /\ ret.chars.tagged
    /\ \E other \in CandidateTexts :
          ~other.chars.tagged /\ scoreDecodedText(other) > scoreDecodedText(ret)

\* C23: in auto mode, bytes that begin with a byte-order mark are decoded
\* with the mark's encoding from the byte after the mark on, whatever the
\* candidate decodings would score: utf-8 and utf-16le by the platform's
\* decoder, utf-16be as the utf-16le decoding of the swapped byte pairs.
C23_MarkDecides ==
    (/\ call.fn = "decodeTextWithEncoding"
     /\ AutoMode
     /\ MarkOf(call.buf) # "none")
        => LET mark == MarkOf(call.buf)
               rest == SubSeq(call.buf, IF mark = "utf-8" THEN 4 ELSE 3, Len(call.buf))
           IN  IF rest = <<>> \/ (mark = "utf-16be" /\ Len(rest) < 2) THEN ret = EmptyText
               ELSE IF mark = "utf-16be"
               THEN /\ ret.enc = "utf-16le"
                    /\ Len(ret.bytes) = Len(rest) - (Len(rest) % 2)
                    /\ \A i \in 1..Len(ret.bytes) :
                          ret.bytes[i] = rest[IF i % 2 = 1 THEN i + 1 ELSE i - 1]
               ELSE ret.enc = mark /\ ret.bytes = rest

\* FE FF 41 FF with no hint: the utf-16le decoding of FF 41
C23_Witness ==
    /\ call.fn = "decodeTextWithEncoding"
    /\ call.encoding = <<>>
    /\ call.buf = <<254, 255, 65, 255>>
    /\ ret.enc = "utf-16le"
    /\ ret.bytes = <<255, 65>>

\* C24: decodeTextWithEncoding returns a string for every buffer and every
\* encoding hint.
C24_DecodeNeverFails ==
    call.fn = "decodeTextWithEncoding" => ret # Thrown

\* C25: audio:readBuffer answers the transcoded bytes for a .wma file that
\* ffmpeg transcodes, the file's bytes marked wma-raw for a readable .wma file
\* that it does not, the file's bytes marked raw for a readable file of any
\* other extension, and null exactly for a file that cannot be read.
C25_ReadBufferOutcomes ==
    call.fn = "audio:readBuffer" =>
        LET file == call.file
            wma == ToLowerCase(file.ext) = <<".", "w", "m", "a">>
        IN  /\ (wma /\ file.ffmpeg = "ok") =>
                  ret = [kind |-> "wav-transcoded", data |-> [bytes |-> "transcoded"]]
            /\ (wma /\ file.ffmpeg # "ok" /\ file.readable) =>
                  ret = [kind |-> "wma-raw", data |-> [bytes |-> "file"]]
            /\ (~wma /\ file.readable) =>
                  ret = [kind |-> "raw", data |-> [bytes |-> "file"]]
            /\ (ret = NoFile) <=> ~file.readable

\* a readable .WMA file on a machine without ffmpeg
C25_Witness ==
    /\ call.fn = "audio:readBuffer"
    /\ call.file.ext = <<".", "W", "M", "A">>
    /\ call.file.ffmpeg = "missing"
    /\ call.file.readable
    /\ ret.kind = "wma-raw"

\* C26: when the read of the current track's audio load answers null, the
\* "cannot read or decode" message is shown, isPlaying becomes false, no
\* stream is installed and the track stays selected.
C26_NullReadStopsPlayback ==
    [][ (last'.op = "audioReadNull" /\ ~last'.stale) =>
            /\ playError' = MsgUnreadable
            /\ isPlaying' = FALSE
            /\ UNCHANGED <<audioSrc, datasetBlobUrl, audioTime, currentTrackId>>
      ]_vars

\* the second track's read answered null while the first track's stream is
\* still the source of the audio element
C26_Witness ==
    /\ last.op = "audioReadNull"
    /\ ~last.stale
    /\ currentTrackId \in Tracks
    /\ playError = MsgUnreadable
    /\ ~isPlaying
    /\ audioSrc \in Tracks \ {currentTrackId}
    /\ datasetBlobUrl = NoBlob

\* C27: at most one object URL is live at any time, it is the one the audio
\* element records, and it streams the current track: the URL of a
\* superseded track is revoked by the track change.
C27_OneLiveBlobUrl ==
    /\ BagCardinality(blobUrls) <= 1
    /\ blobUrls = IF datasetBlobUrl = NoBlob THEN EmptyBag ELSE SetToBag({datasetBlobUrl})
    /\ \A url \in BagToSet(blobUrls) : url = currentTrackId

\* a track change has just released the URL of the track that was playing
C27_Witness ==
    /\ last.op = "playTrack"
    /\ audioSrc \in Tracks \ {currentTrackId}
    /\ blobUrls = EmptyBag
    /\ \E k \in 1..Len(audioLoads) : ~audioLoads[k].canceled

\* the order in which the lyric files of track t are to be tried
CandidateOrder(t) ==
    (IF data.lyricPaths[t] # NoPath THEN <<data.lyricPaths[t]>> ELSE <<>>)
      \o << <<t, ".lrc">>, <<t, ".LRC">>, <<t, ".txt">>, <<t, ".TXT">> >>

\* the file at path p can be read and parses to at least one line
Supplies(p) == files[p].exists /\ parseLyrics(files[p].text) # <<>>

\* C28: a lyric load takes its lines from the first file, in the order
\* track.lyricPath, .lrc, .LRC, .txt, .TXT, that can be read and parses to at
\* least one line; a file that cannot be read or parses to no line is passed
\* over without a change; when no file supplies a line the lines become empty
\* and no error is shown.
C28_FirstSupplyingCandidate ==
    [][ /\ last'.op = "lyricLoaded" =>
              \E t \in Tracks :
                  LET order == CandidateOrder(t)
                      good == {i \in 1..Len(order) : Supplies(order[i])}
                  IN  /\ good # {}
                      /\ LET first == CHOOSE i \in good : \A j \in good : i <= j
                         IN  /\ lyricDebugPath' = order[first]
                             /\ lyricLines' = parseLyrics(files[order[first]].text)
                             /\ lyricLines' # <<>>
        /\ last'.op = "lyricNone" =>
              /\ lyricLines' = <<>>
              /\ playError' = playError
              /\ \E t \in Tracks :
                    /\ lyricDebugPath' = CandidateOrder(t)[1]
                    /\ \A i \in 1..Len(CandidateOrder(t)) : ~Supplies(CandidateOrder(t)[i])
        /\ last'.op = "lyricProbe" => UNCHANGED <<lyricLines, lyricDebugPath, playError>>
      ]_vars

\* the current track's lyricPath names a file that is gone, its .lrc file
\* holds no timed line, its .LRC file supplied the lines
C28_Witness ==
    /\ last.op = "lyricLoaded"
    /\ ~last.stale
    /\ currentTrackId = "t1"
    /\ data.lyricPaths["t1"] = <<"t1", ".txt">>
    /\ ~files[<<"t1", ".txt">>].exists
    /\ files[<<"t1", ".lrc">>] = File(TextNoTags)
    /\ lyricDebugPath = <<"t1", ".LRC">>
    /\ lyricLines # <<>>

\* C29: sourceSwitching is true for as long as the audio load of the current
\* track (the load that no track change has superseded) is in flight, whatever
\* becomes of the superseded loads in the meantime.
C29_SwitchingWhileLoading ==
    \A k \in 1..Len(audioLoads) : ~audioLoads[k].canceled => sourceSwitching

\* C30: a rejected read of an audio load that a track change has superseded
\* changes neither isPlaying nor the status message.
C30_SupersededFailureIsSilent ==
    [][ (last'.op = "audioReadReject" /\ last'.stale) => UNCHANGED <<isPlaying, playError>> ]_vars

\* the playback times at which the active index of `lines` under `offset` or
\* of the lines shifted by it can change, with the times next to them
ProbeTimes(lines, offset) ==
    {0} \cup {t \in {lines[i].time - offset + d : i \in 1..Len(lines), d \in {-1, 0, 1}} : t >= 0}

\* C31: a save does not change the line on display: at every playback time
\* t >= 0 the active index of the lines the save stores, read with offset 0,
\* is the active index of the lines before the save read with the offset
\* saved; and a successful save leaves those stored lines and offset 0.
C31_SaveKeepsActiveLine ==
    [][ /\ last'.op = "saveStart" =>
              LET shifted == saves'[Len(saves')].shiftedLines IN
              \A t \in ProbeTimes(lyricLines, lyricOffsetSec) :
                  ActiveIdxOf(shifted, t + 0) = ActiveIdxOf(lyricLines, t + lyricOffsetSec)
        /\ last'.op = "saveDone" =>
              \E k \in 1..Len(saves) :
                  \A t \in ProbeTimes(saves[k].shiftedLines, 0) :
                      ActiveIdxOf(lyricLines', t + lyricOffsetSec') =
                          ActiveIdxOf(saves[k].shiftedLines, t)
      ]_vars

\* an offset of +0.5 s was saved while the clock stood at 1.95 s: Hello is the
\* active line before the save (2.45 s against 1.0 and 2.5) and after it
C31_Witness ==
    /\ last.op = "saveDone"
    /\ lyricOffsetSec = 0
    /\ time = 1950
    /\ lyricLines = <<[time |-> 500, text |-> "Hello"], [time |-> 2000, text |-> "World"]>>
    /\ activeLyricIdx = 1

\* C32: whenever the lyric lines are not empty, lyricDebugPath is the file
\* they were parsed from: a step that takes the lines from a file, be it a
\* lyric load (also one started by an encoding change) or the handler of a
\* lyric download, leaves lyricDebugPath naming that file.
C32_LinesFromDebugPath ==
    [][ /\ (last'.op = "lyricLoaded" /\ lyricLines' # <<>>) =>
              \E k \in 1..Len(lyricLoads) :
                  /\ lyricLoads' = RemoveAt(lyricLoads, k)
                  /\ LET txt == readTextFileWithEncoding(files, lyricDebugPath', lyricLoads[k].enc)
                     IN  txt.exists /\ lyricLines' = parseLyrics(txt.text)
        /\ (last'.op = "downloadRead" /\ lyricLines' # <<>>) =>
              \E k \in 1..Len(downloads) :
                  /\ downloads' = RemoveAt(downloads, k)
                  /\ lyricDebugPath' = downloads[k].lyricPath
      ]_vars

\* C33: the held line index is none or an index of the current lines, also
\* after a reload for the same track has replaced the lines.
C33_HeldIndexValid ==
    holdLyricIdx = NoHold \/ holdLyricIdx \in 1..Len(lyricLines)

\* C34: the tracks of the favorites playlist are exactly the tracks whose
\* liked flag is set.
C34_FavoritesAreLiked ==
    data.playlists["favorites"] = {t \in TrackIds(data) : data.liked[t]}

----------------------------------------------------------------------------
(* The queue and the search box *)

InitQueue == Init

NextQueue ==
    \/ \E id \in Tracks : LoadsDone /\ id \in TrackIds(data) /\ PlayTrack(id)
    \/ LoadsDone /\ PlayNext
    \/ \E id \in Tracks : LoadsDone /\ Enqueue(id)
    \/ LoadsDone /\ CyclePlayMode
    \/ \E q \in Queries : LoadsDone /\ SetQuery(q)
    \/ \E k \in 1..MaxAudioLoads : AudioReadResolve(k, "raw")
    \/ \E k \in 1..MaxAudioLoads : AudioPlaySettle(k, TRUE)
    \/ \E k \in 1..MaxLyricLoads : LyricReadDone(k)

SpecQueue == InitQueue /\ [][NextQueue]_vars

\* C35: playNext with a non-empty pending queue plays the head of the queue
\* and removes it in every play mode; with an empty queue, in sequence mode
\* it goes to the track after the current one in the active list and at the
\* last track stops playing and keeps the current track; in random mode it
\* never selects the current track.
C35_PlayNextOrder ==
    [][ last'.op = "playNext" =>
          LET idx == IndexOf(activePlayList, currentTrackId) IN
          /\ pendingQueue # <<>> =>
                /\ currentTrackId' = Head(pendingQueue)
                /\ pendingQueue' = Tail(pendingQueue)
                /\ isPlaying'
          /\ (pendingQueue = <<>> /\ data.playMode = "sequence" /\ idx > 0) =>
                IF idx < Len(activePlayList)
                THEN currentTrackId' = activePlayList[idx + 1] /\ isPlaying'
                ELSE currentTrackId' = currentTrackId /\ ~isPlaying'
          /\ (pendingQueue = <<>> /\ data.playMode = "random" /\ currentTrackId # NoTrack) =>
                \/ currentTrackId' # currentTrackId
                \/ UNCHANGED <<sessionVars, lyricVars, audioVars, asyncVars>>
      ]_vars

----------------------------------------------------------------------------
(* Closing the main window, main.cjs:499-503, 592-688 *)

MaxCloseHandlers == 2

CloseBehaviors == {"ask", "tray", "exit"}

\* what a close step leaves alone
CloseFrame ==
    UNCHANGED <<sessionVars, lyricVars, audioVars, asyncVars, files, libraryVars, callVars,
                downloads, query, edits>>

\* the guard of handleMainCloseRequest, main.cjs:668
CloseGuard_NoFlag == mainWindow = "destroyed"

CloseGuard == isHandlingClose \/ mainWindow = "destroyed"

\* handleMainCloseRequest up to its first await, main.cjs:667-671
handleMainCloseRequest ==
    IF CloseGuard \/ Len(closeHandlers) >= MaxCloseHandlers
    THEN UNCHANGED <<isHandlingClose, closeHandlers>>
    ELSE /\ isHandlingClose' = TRUE
         /\ closeHandlers' = Append(closeHandlers, [pc |-> "load", selected |-> "none"])

\* the 'close' event of the main window, main.cjs:499-503: without
\* preventDefault the window closes, and 'closed' forgets it, 504-508
CloseEvent ==
    /\ mainWindow # "destroyed"
    /\ IF isQuitting
       THEN mainWindow' = "destroyed" /\ UNCHANGED <<isHandlingClose, closeHandlers>>
       ELSE UNCHANGED mainWindow /\ handleMainCloseRequest
    /\ last' = Did("closeEvent", NoHold, FALSE)
    /\ UNCHANGED <<isQuitting, appTray, appQuit, closeBehavior>>
    /\ CloseFrame

\* the renderer's close button, ipc 'window:close', main.cjs:935-937
WindowClose ==
    /\ handleMainCloseRequest
    /\ last' = Did("windowClose", NoHold, FALSE)
    /\ UNCHANGED <<isQuitting, mainWindow, appTray, appQuit, closeBehavior>>
    /\ CloseFrame

\* the rest of handleMainCloseRequest once resolveCloseBehavior settled with
\* behavior, or threw: main.cjs:672-687. mainWindow.hide() throws when the
\* window is gone; the finally block runs in every case
CloseSettle(k, behavior) ==
    /\ closeHandlers' = RemoveAt(closeHandlers, k)
    /\ isHandlingClose' = FALSE
    /\ IF behavior = "tray"
       THEN /\ appTray' = TRUE
            /\ mainWindow' = IF mainWindow = "destroyed" THEN mainWindow ELSE "hidden"
            /\ UNCHANGED <<isQuitting, appQuit>>
            /\ last' = Did(IF mainWindow = "destroyed" THEN "closeThrown" ELSE "closeTray",
                           NoHold, FALSE)
       ELSE IF behavior = "exit"
       THEN /\ isQuitting' = TRUE
            /\ appTray' = FALSE
            /\ appQuit' = TRUE
            /\ UNCHANGED mainWindow
            /\ last' = Did("closeExit", NoHold, FALSE)
       ELSE /\ UNCHANGED <<isQuitting, mainWindow, appTray, appQuit>>
            /\ last' = Did(IF behavior = "cancel" THEN "closeCancel" ELSE "closeThrown",
                           NoHold, FALSE)

\* loadData of resolveCloseBehavior answered, main.cjs:642-644: a stored
\* choice is the behaviour, 'ask' opens the dialog; reading or parsing the
\* data file can throw, 230-231
CloseLoadDone(k, ok) ==
    /\ k \in 1..Len(closeHandlers)
    /\ closeHandlers[k].pc = "load"
    /\ IF ~ok THEN CloseSettle(k, "thrown")
       ELSE IF closeBehavior # "ask" THEN CloseSettle(k, closeBehavior)
       ELSE /\ closeHandlers' = [closeHandlers EXCEPT ![k].pc = "dialog"]
            /\ last' = Did("closeAsk", NoHold, FALSE)
            /\ UNCHANGED <<isQuitting, isHandlingClose, mainWindow, appTray, appQuit>>
    /\ UNCHANGED closeBehavior
    /\ CloseFrame

\* the dialog answered, main.cjs:646-664: button 2 cancels, a ticked box
\* awaits persistCloseBehavior first
CloseDialogDone(k, response, checkboxChecked) ==
    /\ k \in 1..Len(closeHandlers)
    /\ closeHandlers[k].pc = "dialog"
    /\ response \in 0..2
    /\ LET selected == IF response = 0 THEN "tray" ELSE "exit" IN
       IF response = 2 THEN CloseSettle(k, "cancel")
       ELSE IF checkboxChecked
       THEN /\ closeHandlers' = [closeHandlers EXCEPT ![k].pc = "persist",
                                                      ![k].selected = selected]
            /\ last' = Did("closePersist", NoHold, FALSE)
            /\ UNCHANGED <<isQuitting, isHandlingClose, mainWindow, appTray, appQuit>>
       ELSE CloseSettle(k, selected)
    /\ UNCHANGED closeBehavior
    /\ CloseFrame

\* persistCloseBehavior ended, main.cjs:627-639: the choice is stored, or the
\* failure to store it is ignored
ClosePersistDone(k, stored) ==
    /\ k \in 1..Len(closeHandlers)
    /\ closeHandlers[k].pc = "persist"
    /\ closeBehavior' = IF stored THEN closeHandlers[k].selected ELSE closeBehavior
    /\ CloseSettle(k, closeHandlers[k].selected)
    /\ CloseFrame

\* the tray icon or its first menu entry, main.cjs:597-605, 619-623
TrayShow ==
    /\ appTray
    /\ mainWindow = "hidden"
    /\ mainWindow' = "shown"
    /\ last' = Did("trayShow", NoHold, FALSE)
    /\ UNCHANGED <<isQuitting, isHandlingClose, closeHandlers, appTray, appQuit, closeBehavior>>
    /\ CloseFrame

\* the tray menu's exit entry, main.cjs:606-616
TrayExit ==
    /\ appTray
    /\ isQuitting' = TRUE
    /\ appTray' = FALSE
    /\ appQuit' = TRUE
    /\ last' = Did("trayExit", NoHold, FALSE)
    /\ UNCHANGED <<isHandlingClose, closeHandlers, mainWindow, closeBehavior>>
    /\ CloseFrame

\* the close behaviour chosen in the settings menu and saved, App.jsx:1503-1512
SetCloseBehavior(value) ==
    /\ value # closeBehavior
    /\ mainWindow = "shown"
    /\ closeBehavior' = value
    /\ last' = Did("setCloseBehavior", NoHold, FALSE)
    /\ UNCHANGED <<isQuitting, isHandlingClose, closeHandlers, mainWindow, appTray, appQuit>>
    /\ CloseFrame

NextClose ==
    \/ CloseEvent
    \/ WindowClose
    \/ \E k \in 1..MaxCloseHandlers, ok \in BOOLEAN : CloseLoadDone(k, ok)
    \/ \E k \in 1..MaxCloseHandlers, response \in 0..2, checkboxChecked \in BOOLEAN :
          CloseDialogDone(k, response, checkboxChecked)
    \/ \E k \in 1..MaxCloseHandlers, stored \in BOOLEAN : ClosePersistDone(k, stored)
    \/ TrayShow
    \/ TrayExit
    \/ \E value \in CloseBehaviors : SetCloseBehavior(value)

SpecClose == Init /\ [][NextClose]_vars

\* C36: at most one close request is handled at a time: a request made while
\* one awaits the close-behaviour decision is ignored; the handling flag is
\* false after every outcome (cancel, tray, exit, a thrown error); a close
\* event of the main window is prevented unless the app is quitting; and
\* the cancel outcome neither hides the window nor quits.
C36_OneCloseAtATime ==
    [][ /\ Len(closeHandlers') <= 1
        /\ (last'.op \in {"closeEvent", "windowClose"} /\ closeHandlers # <<>>) =>
              closeHandlers' = closeHandlers
        /\ last'.op \in {"closeCancel", "closeTray", "closeExit", "closeThrown"} =>
              ~isHandlingClose'
        /\ (last'.op = "closeEvent" /\ ~isQuitting) => mainWindow' = mainWindow
        /\ last'.op = "closeCancel" => UNCHANGED <<mainWindow, appQuit, isQuitting>>
      ]_vars

\* a close request was ignored while another awaited the dialog
C36_Witness ==
    /\ last.op \in {"closeEvent", "windowClose"}
    /\ Len(closeHandlers) = 1
    /\ closeHandlers[1].pc = "dialog"
    /\ isHandlingClose

----------------------------------------------------------------------------
(* The shape of the stored data, main.cjs:178-219, 411-457. A track is held
   by its id and liked flag, a playlist by its id and track ids; an id is a
   sequence of characters, the empty one standing for a missing id. *)

MaxShapeLen == 2

SeqsUpTo(S, n) == UNION {[1..k -> S] : k \in 0..n}

FavoritesPlaylist == [id |-> "favorites", trackIds |-> <<>>]

\* the track map of ensureDataShape kept every track
DedupeTracks_KeepAll(tracks, seen) == tracks

\* the track map of ensureDataShape, main.cjs:204-209: the first track of
\* every id, tracks without id skipped
RECURSIVE DedupeTracks(_, _)
DedupeTracks(tracks, seen) ==
    IF tracks = <<>> THEN <<>>
    ELSE IF Head(tracks).id = <<>> \/ Head(tracks).id \in seen
         THEN DedupeTracks(Tail(tracks), seen)
         ELSE <<Head(tracks)>> \o DedupeTracks(Tail(tracks), seen \cup {Head(tracks).id})

IdsOf(tracks) == {tracks[i].id : i \in 1..Len(tracks)}

\* ensureDataShape, main.cjs:178-219, on the tracks and playlists of raw;
\* raw without playlists takes the playlists of base
ensureDataShape(raw) ==
    LET given == IF raw.hasPlaylists THEN raw.playlists ELSE <<FavoritesPlaylist>>
        withFavorites ==
            IF \E i \in 1..Len(given) : given[i].id = "favorites"
            THEN given ELSE <<FavoritesPlaylist>> \o given
        tracks == DedupeTracks(raw.tracks, {})
        validTrackIds == IdsOf(tracks)
    IN  [tracks |-> tracks,
         playlists |-> [i \in 1..Len(withFavorites) |->
             [withFavorites[i] EXCEPT
                 !.trackIds = Dedupe(SelectSeq(@, LAMBDA id : id \in validTrackIds), {})]]]

\* uniqAudioById of scanFolders, main.cjs:425-429: the first file of every id
RECURSIVE uniqAudioById(_, _)
uniqAudioById(audioFiles, seen) ==
    IF audioFiles = <<>> THEN <<>>
    ELSE IF normalizeId(Head(audioFiles)) \in seen
         THEN uniqAudioById(Tail(audioFiles), seen)
         ELSE <<Head(audioFiles)>>
                 \o uniqAudioById(Tail(audioFiles), seen \cup {normalizeId(Head(audioFiles))})

\* scanFolders, main.cjs:411-457, from the audio files found in the folders
scanFolders(audioFiles, prevData) ==
    LET prevLiked == {prevData.tracks[i].id :
                         i \in {j \in 1..Len(prevData.tracks) : prevData.tracks[j].liked}}
        found == uniqAudioById(audioFiles, {})
        tracks == [i \in 1..Len(found) |->
                      [id |-> normalizeId(found[i]), liked |-> normalizeId(found[i]) \in prevLiked]]
        likedTracks == SelectSeq(tracks, LAMBDA t : t.liked)
        favorites == [id |-> "favorites",
                      trackIds |-> [i \in 1..Len(likedTracks) |-> likedTracks[i].id]]
        otherPlaylists ==
            LET others == SelectSeq(prevData.playlists, LAMBDA p : p.id # "favorites")
            IN  [i \in 1..Len(others) |->
                    [others[i] EXCEPT !.trackIds = SelectSeq(@, LAMBDA id : id \in IdsOf(tracks))]]
    IN  [tracks |-> tracks, playlists |-> <<favorites>> \o otherPlaylists]

\* the data files and folder contents tried
RawIds == {<<>>, <<"a">>, <<"b">>}
RawTracks == [id : RawIds, liked : BOOLEAN]
RawPlaylists == [id : {"favorites", "playlist-1"},
                 trackIds : {<< <<"a">>, <<"a">> >>, << <<"b">>, <<"c">> >>}]
RawDatas ==
    [hasPlaylists : {TRUE}, tracks : SeqsUpTo(RawTracks, MaxShapeLen),
     playlists : SeqsUpTo(RawPlaylists, MaxShapeLen)]
        \cup [hasPlaylists : {FALSE}, tracks : SeqsUpTo(RawTracks, MaxShapeLen), playlists : {<<>>}]
\* what loadData can return, main.cjs:225-232
ShapedDatas == {ensureDataShape(raw) : raw \in RawDatas}
FoundAudioFiles == SeqsUpTo({<<"a">>, <<"A">>, <<"b">>}, MaxShapeLen)

EnsureDataShapeCall(raw) ==
    /\ call' = [fn |-> "ensureDataShape", raw |-> raw]
    /\ ret' = ensureDataShape(raw)
    /\ UNCHANGED <<sessionVars, lyricVars, audioVars, asyncVars, files, libraryVars, handlerVars, last, edits>>

\* scan:folders, main.cjs:749-757: scanFolders on what loadData returned
ScanFoldersCall(audioFiles, prevData) ==
    /\ call' = [fn |-> "scanFolders", audioFiles |-> audioFiles, prevData |-> prevData]
    /\ ret' = scanFolders(audioFiles, prevData)
    /\ UNCHANGED <<sessionVars, lyricVars, audioVars, asyncVars, files, libraryVars, handlerVars, last, edits>>

NextShape ==
    \/ call = NoCall /\ \E raw \in RawDatas : EnsureDataShapeCall(raw)
    \/ call = NoCall /\ \E audioFiles \in FoundAudioFiles, prevData \in ShapedDatas :
                           ScanFoldersCall(audioFiles, prevData)

SpecShape == Init /\ [][NextShape]_vars

\* C37: the data ensureDataShape and scanFolders return has pairwise
\* distinct track ids, a playlist with id 'favorites', and in every playlist
\* only ids of tracks that exist; after a scan a track is liked exactly when
\* a track of the same id was liked before it.
C37_DataShape ==
    call.fn \in {"ensureDataShape", "scanFolders"} =>
        /\ \A i, j \in 1..Len(ret.tracks) : ret.tracks[i].id = ret.tracks[j].id => i = j
        /\ \E p \in 1..Len(ret.playlists) : ret.playlists[p].id = "favorites"
        /\ \A p \in 1..Len(ret.playlists) : \A k \in 1..Len(ret.playlists[p].trackIds) :
               ret.playlists[p].trackIds[k] \in IdsOf(ret.tracks)
        /\ call.fn = "scanFolders" =>
               \A i \in 1..Len(ret.tracks) :
                   ret.tracks[i].liked <=>
                       \E j \in 1..Len(call.prevData.tracks) :
                           /\ call.prevData.tracks[j].id = ret.tracks[i].id
                           /\ call.prevData.tracks[j].liked

\* a data file with the same track twice and a playlist naming a track that
\* is gone
C37_Witness ==
    /\ call.fn = "ensureDataShape"
    /\ Len(call.raw.tracks) = 2
    /\ call.raw.tracks[1].id = <<"a">>
    /\ call.raw.tracks[2].id = <<"a">>
    /\ call.raw.hasPlaylists
    /\ Len(call.raw.playlists) = 1
    /\ call.raw.playlists[1] = [id |-> "playlist-1", trackIds |-> << <<"b">>, <<"c">> >>]
    /\ Len(ret.tracks) = 1
    /\ Len(ret.playlists) = 2
    /\ ret.playlists[2].trackIds = <<>>

----------------------------------------------------------------------------
(* shiftLrcTimestamps, main.cjs:328-347. Times and shifts are in
   milliseconds; the tags tried have at most three fractional digits and the
   times and shifts are multiples of a quarter second, which doubles hold
   exactly. *)

MaxPieces == 2

\* Math.max(0, total - shiftSec) without the clamp
ShiftedTime_Unclamped(total, shift) == total - shift

\* Math.max(0, total - shiftSec), main.cjs:332
ShiftedTime(total, shift) == Max(0, total - shift)

\* 10 ** n
RECURSIVE Pow10(_)
Pow10(n) == IF n = 0 THEN 1 ELSE 10 * Pow10(n - 1)

\* fracStr ? fracStr.length : 0 for the matched tag
TagPrecision(tagChars) ==
    LET dot == FirstOf(tagChars, ".") IN
    IF dot = 0 THEN 0 ELSE Len(tagChars) - 1 - dot

\* the replacer of shiftLrcTimestamps for one matched tag, main.cjs:330-346
ShiftTag(tagChars, shift) ==
    LET shifted == ShiftedTime(TagTime(ReadTag(tagChars)), shift)
        precision == TagPrecision(tagChars)
    IN  IF precision > 0
        THEN LET scale == Pow10(precision)
                 unit == 1000 \div scale
                 ticks == (shifted + unit \div 2) \div unit
                 mm == ticks \div (60 * scale)
                 rest == ticks - mm * 60 * scale
                 secFixed == DigitsOf(rest \div scale) \o <<".">>
                                \o PadStart(DigitsOf(rest % scale), precision, "0")
             IN  <<"[">> \o PadStart(DigitsOf(mm), 2, "0") \o <<":">>
                       \o PadStart(secFixed, precision + 3, "0") \o <<"]">>
        ELSE LET mm == shifted \div 60000
                 sec == (shifted % 60000) \div 1000
             IN  <<"[">> \o PadStart(DigitsOf(mm), 2, "0") \o <<":">>
                       \o PadStart(DigitsOf(sec), 2, "0") \o <<"]">>

\* text.replace(pattern, replacer) from position i on
RECURSIVE ReplaceTags(_, _, _)
ReplaceTags(chars, i, shift) ==
    IF i > Len(chars) THEN <<>>
    ELSE IF MatchLen(chars, i) > 0
         THEN ShiftTag(SubSeq(chars, i, i + MatchLen(chars, i) - 1), shift)
                 \o ReplaceTags(chars, i + MatchLen(chars, i), shift)
         ELSE <<chars[i]>> \o ReplaceTags(chars, i + 1, shift)

shiftLrcTimestamps(raw, shift) == ReplaceTags(raw, 1, shift)

\* the pieces the texts tried are put together from: tags with one, two,
\* three and no fractional digits, a tag that is not zero-padded, one with
\* 75 seconds, and texts that are no tag
Pieces ==
    { <<"[", "0", "0", ":", "0", "1", ".", "5", "]">>,
      <<"[", "0", "0", ":", "5", "9", ".", "7", "5", "]">>,
      <<"[", "0", "2", ":", "0", "0", ".", "2", "5", "0", "]">>,
      <<"[", "0", "1", ":", "0", "0", "]">>,
      <<"[", "1", ":", "5", "]">>,
      <<"[", "0", "0", ":", "7", "5", "]">>,
      <<"[", "0", "0", ":", "0", "1", ".", "]">>,
      <<"[", "0", "0", ":", "0", "1", ".", "5">>,
      <<"l", "a", " ">>,
      <<"[", "a", "r", ":", "x", "]">> }

RECURSIVE Flatten(_)
Flatten(pieces) == IF pieces = <<>> THEN <<>> ELSE Head(pieces) \o Flatten(Tail(pieces))

ShiftTexts == {Flatten(pieces) : pieces \in SeqsUpTo(Pieces, MaxPieces)}
Shifts == {0, 250, 500, 1250, -500, 90000}

ShiftLrcTimestampsCall(raw, shift) ==
    /\ call' = [fn |-> "shiftLrcTimestamps", raw |-> raw, shift |-> shift]
    /\ ret' = shiftLrcTimestamps(raw, shift)
    /\ UNCHANGED <<sessionVars, lyricVars, audioVars, asyncVars, files, libraryVars, handlerVars, last, edits>>

NextShift ==
    call = NoCall /\ \E raw \in ShiftTexts, shift \in Shifts : ShiftLrcTimestampsCall(raw, shift)

SpecShift == Init /\ [][NextShift]_vars

\* the texts of the tags matched in chars from position i on
RECURSIVE TagTexts(_, _)
TagTexts(chars, i) ==
    IF i > Len(chars) THEN <<>>
    ELSE IF MatchLen(chars, i) > 0
         THEN <<SubSeq(chars, i, i + MatchLen(chars, i) - 1)>>
                 \o TagTexts(chars, i + MatchLen(chars, i))
         ELSE TagTexts(chars, i + 1)

\* chars with a mark in the place of every tag
RECURSIVE Skeleton(_, _)
Skeleton(chars, i) ==
    IF i > Len(chars) THEN <<>>
    ELSE IF MatchLen(chars, i) > 0 THEN <<"T">> \o Skeleton(chars, i + MatchLen(chars, i))
         ELSE <<chars[i]>> \o Skeleton(chars, i + 1)

\* [mm:ss] or [mm:ss.f...] with two digits of seconds below 60 and minutes
\* of two digits, or more without a leading zero
ZeroPadded(tagChars) ==
    LET colon == FirstOf(tagChars, ":")
        whole == DigitRun(tagChars, colon + 1)
    IN  /\ colon >= 4
        /\ colon = 4 \/ tagChars[2] # "0"
        /\ whole = 2
        /\ ReadTag(tagChars).sec < 60000

\* C38: shiftLrcTimestamps rewrites every timestamp tag to
\* max(0, time - shift) in the number of fractional digits the tag had, with
\* a seconds field below 60; the text outside the tags is unchanged; with
\* shift 0 a zero-padded tag with seconds below 60 is mapped to itself.
C38_ShiftKeepsFormat ==
    call.fn = "shiftLrcTimestamps" =>
        LET before == TagTexts(call.raw, 1)
            after == TagTexts(ret, 1)
        IN  /\ Skeleton(ret, 1) = Skeleton(call.raw, 1)
            /\ Len(after) = Len(before)
            /\ \A k \in 1..Len(before) :
                  LET unit == 1000 \div Pow10(TagPrecision(before[k]))
                      want == Max(0, TagTime(ReadTag(before[k])) - call.shift)
                      got == TagTime(ReadTag(after[k]))
                  IN  /\ TagPrecision(after[k]) = TagPrecision(before[k])
                      /\ ReadTag(after[k]).sec < 60000
                      /\ Abs(got - want) < unit
                      /\ want % unit = 0 => got = want
                      /\ (call.shift = 0 /\ ZeroPadded(before[k])) => after[k] = before[k]

\* [00:01.5] shifted by 1.25 s is [00:00.3], after a text that is kept
C38_Witness ==
    /\ call.fn = "shiftLrcTimestamps"
    /\ call.shift = 1250
    /\ call.raw = <<"l", "a", " ", "[", "0", "0", ":", "0", "1", ".", "5", "]">>
    /\ ret = <<"l", "a", " ", "[", "0", "0", ":", "0", "0", ".", "3", "]">>

====
